---------------------------- MODULE Spec2Model ----------------------------
(***************************************************************************)
(* A model of the smart-ai-parking-finder backend (src/backend/server.js): *)
(* the Overpass mirror client (callOverpass), the two in-memory cache      *)
(* tiers (areaCache, singleIdCache), the two lookups built on them         *)
(* (GET /api/parking-lots/real, fetchOpenStreetMapParkingById), the record *)
(* store with its background job and update request, and the predictor.    *)
(*                                                                         *)
(* Each part of the program has a specification of its own over the same   *)
(* variables; the variables a specification does not use keep their        *)
(* initial value.                                                          *)
(*   SpecOverpass   callOverpass called with any attempts in               *)
(*                  0..MaxAttempts                                         *)
(*   SpecAreaCache  saveAreaCache / readAreaCache called in any order      *)
(*                  while time passes                                      *)
(*   SpecIdCache    saveIdCache / readIdCache called in any order while    *)
(*                  time passes                                            *)
(*   SpecById       fetchOpenStreetMapParkingById called again and again   *)
(*                  while time passes and the area tier is rewritten       *)
(*   SpecStore      cycles of the background job and update requests,      *)
(*                  interleaved at their awaits                            *)
(*   SpecSeed       seedDatabase on an empty store, then the               *)
(*                  background job and update requests                     *)
(*   SpecOverlap    cycles of the background job alone, a period elapsing  *)
(*                  whether or not the cycle before is over                *)
(*   SpecNearby     GET /api/parking-lots/real requests while time passes  *)
(*   SpecPredict    predictAvailability on any stored lot and history      *)
(*   SpecListing    GET /api/parking-lots requests, two at a time, while   *)
(*                  time passes and PredictionCache documents expire       *)
(*   SpecMapper     mapOverpassToParkingLots on any list of elements       *)
(*   SpecClient     the browser's ParkingService                           *)
(*                  (src/frontend/src/app/services/parking.service.ts):    *)
(*                  its socket connecting and disconnecting while lots are *)
(*                  subscribed to and unsubscribed from                    *)
(*   SpecClientLots the same service loading lot lists and receiving       *)
(*                  'parking-update' events                                *)
(*   SpecBroadcast  the socket.io server: channels connecting,             *)
(*                  subscribing, unsubscribing and disconnecting while     *)
(*                  'parking-update' events are emitted                    *)
(***************************************************************************)
EXTENDS Integers, Sequences, FiniteSets, TLC

VARIABLES
  co,            \* the one running callOverpass invocation: its locals and what it did
  now,           \* Date.now(), in milliseconds since the process started
  ticks,         \* how many times the clock has been advanced
  areaCache,     \* let areaCache = { key, lots, indexById, ts }
  singleIdCache, \* let singleIdCache = new Map()   id -> { lot, ts }
  op,            \* the last cache function called, its argument and what it returned
  areaSavedAt,   \* history: per area key, when saveAreaCache was last called with it
  idSavedAt,     \* history: per id, when saveIdCache was last called with it
  bi,            \* the one running fetchOpenStreetMapParkingById invocation
  parkingLots,   \* the ParkingLot collection: _id -> document
  history,       \* the HistoricalData collection, in insertion order
  job,           \* the cycles of the setInterval callback, each with what it emitted
  put,           \* the one PUT /api/parking-lots/:id request, with what it emitted
  started,       \* how many cycles and update requests have been started
  nb,            \* the GET /api/parking-lots/real requests: their locals and answers
  mirrorUp,      \* which Overpass mirrors would answer 2xx if they were asked
  pd,            \* the one predictAvailability invocation: its locals and result
  cl,            \* the browser's ParkingService: its socket, listeners and emissions
  mp,            \* the last mapOverpassToParkingLots call: its argument and result
  seed,          \* seedDatabase, run once before the server listens
  predictionCache, \* the PredictionCache collection, in insertion order
  ls,            \* the GET /api/parking-lots requests: their locals and answers
  io             \* the socket.io server: its sockets, their rooms, what it emitted

overpassVars == <<co>>
clockVars    == <<now, ticks>>
cacheVars    == <<areaCache, singleIdCache, op, areaSavedAt, idSavedAt>>
webVars      == <<co, areaCache, singleIdCache, op, areaSavedAt, idSavedAt, bi>>
dbVars       == <<parkingLots, history, job, put, started>>
apiVars      == <<nb, mirrorUp, pd, cl, mp, seed, predictionCache, ls, io>>
vars == <<co, now, ticks, areaCache, singleIdCache, op, areaSavedAt, idSavedAt, bi,
          parkingLots, history, job, put, started, nb, mirrorUp, pd, cl, mp, seed,
          predictionCache, ls, io>>

\* ------------------------------------------------------------------------
\* Bounds of the model
\* ------------------------------------------------------------------------
MaxAttempts == 4
MaxTicks == 3
MaxStarts == 2
MaxHist == 3
MaxCalls == 2
MaxConnects == 2
SeedRecords == 2
MaxEmits == 2

\* ------------------------------------------------------------------------
\* Helpers
\* ------------------------------------------------------------------------
Min(a, b) == IF a <= b THEN a ELSE b
Max(a, b) == IF a >= b THEN a ELSE b

\* ------------------------------------------------------------------------
\* callOverpass (server.js 155-211)
\* ------------------------------------------------------------------------
OVERPASS_MIRRORS ==
  << "https://overpass-api.de/api/interpreter",
     "https://overpass.kumi.systems/api/interpreter",
     "https://overpass.openstreetmap.ru/api/interpreter" >>

\* What one axios.post can end in: a 2xx response, a response with another
\* status, or a transport error (timeout, connection refused).
Outcomes == {"2xx", "non2xx", "transport"}

\* The value of lastErr before the first failure (JavaScript's undefined).
NoErr == [kind |-> "undefined", attempt |-> -1]
\* The error attempt i raises when it ends in outcome o.
ErrOf(o, i) == [kind |-> o, attempt |-> i]
\* resp.data of the attempt i answered by mirror url.
NoData == [from |-> "none", attempt |-> -1]
DataOf(url, i) == [from |-> url, attempt |-> i]

\* const url = OVERPASS_MIRRORS[i % OVERPASS_MIRRORS.length]   (0-based i)
MirrorUrlSticky(i) == OVERPASS_MIRRORS[1]
MirrorUrl(i) == OVERPASS_MIRRORS[(i % Len(OVERPASS_MIRRORS)) + 1]

\* const delay = 500 * Math.pow(2, i)
BackoffDelayShifted(i) == 500 * 2^(i + 1)
BackoffDelay(i) == 500 * 2^i

\* lastErr = err
CatchErrKeepFirst(lastErr, err) == IF lastErr = NoErr THEN err ELSE lastErr
CatchErr(lastErr, err) == err

coIdle ==
  [ pc       |-> "idle",     \* idle | post | backoff | returned | thrown
    caller   |-> "none",
    attempts |-> 0,
    i        |-> 0,
    lastErr  |-> NoErr,
    ret      |-> NoData,
    urls     |-> << >>,      \* the url of every axios.post made, in order
    outcomes |-> << >>,      \* how each of them ended
    delay    |-> 0,          \* the timer the catch block is waiting on
    delays   |-> << >> ]     \* the delays that have elapsed, in order

\* The loop test `i < attempts` with i as given; falls to `throw lastErr`.
coLoopTest(c) ==
  IF c.i < c.attempts THEN [c EXCEPT !.pc = "post"]
                      ELSE [c EXCEPT !.pc = "thrown"]

\* callOverpass(query, { attempts }) is entered by `caller`.
coEnter(caller, attempts) ==
  coLoopTest([coIdle EXCEPT !.caller = caller, !.attempts = attempts])

\* One iteration up to its first suspension point: the axios.post of attempt
\* i ends in outcome o; a 2xx returns resp.data, anything else lands in the
\* catch block, which sets lastErr and starts the backoff timer.
coPost(c, o) ==
  LET url  == MirrorUrl(c.i)
      made == [c EXCEPT !.urls = Append(@, url), !.outcomes = Append(@, o)]
  IN  IF o = "2xx"
        THEN [made EXCEPT !.pc = "returned", !.ret = DataOf(url, c.i)]
        ELSE [made EXCEPT !.pc = "backoff",
                          !.lastErr = CatchErr(c.lastErr, ErrOf(o, c.i)),
                          !.delay = BackoffDelay(c.i)]

\* The backoff timer fires: i++ and the loop test.
coBackoff(c) ==
  coLoopTest([c EXCEPT !.delays = Append(@, c.delay), !.delay = 0, !.i = c.i + 1])

callOverpass_Post(outs) ==
  /\ co.pc = "post"
  /\ \E o \in outs : co' = coPost(co, o)

callOverpass_Backoff ==
  /\ co.pc = "backoff"
  /\ co' = coBackoff(co)


\* ------------------------------------------------------------------------
\* The clock
\* ------------------------------------------------------------------------
\* readAreaCache's maxAgeMs = 10 * 60 * 1000 and readIdCache's = 60 * 60 * 1000
AreaTTL == 10 * 60 * 1000
IdTTL == 60 * 60 * 1000

\* Time passes by one of `steps` milliseconds (Date.now() is read, never set,
\* by the program).
Tick(steps) ==
  /\ ticks < MaxTicks
  /\ \E d \in steps : now' = now + d
  /\ ticks' = ticks + 1

\* ------------------------------------------------------------------------
\* The two cache tiers (server.js 213-241)
\* ------------------------------------------------------------------------
\* The ids of the cached lots ("osm-<element id>") and the area keys
\* ("<lat>,<lng>,<radius>", as areaKey builds them).
OsmIds == {"osm-1", "osm-2"}
AreaKeys == {"33.424,-111.928,5000", "33.424,-111.928,1000"}
NullKey == "null"

\* A cached lot: its id and, standing for the rest of its fields (which
\* mapOverpassToParkingLots draws at random), the number of the fetch that
\* produced it.
Lot(id, v) == [id |-> id, v |-> v]
NoLot == Lot("null", 0)

\* The lists of lots saveAreaCache is called with: none, one, two, and two
\* elements with the same id (a node and a way may share their number).
AreaSnapshots ==
  { << >>,
    << Lot("osm-1", 1) >>,
    << Lot("osm-1", 2), Lot("osm-2", 2) >>,
    << Lot("osm-2", 3), Lot("osm-2", 4) >> }

\* const index = new Map(); for (const lot of lots) index.set(lot.id, lot);
BuildIndex(lots) ==
  [ id \in { lots[k].id : k \in 1..Len(lots) } |->
      lots[CHOOSE k \in 1..Len(lots) :
             /\ lots[k].id = id
             /\ \A m \in (k + 1)..Len(lots) : lots[m].id # id] ]

\* let areaCache = { key: null, lots: null, indexById: null, ts: 0 }
\* (null lots and a null index are the empty list and the empty index here:
\* the program tests the index with `indexById && indexById.has(id)` only)
areaCacheInit == [key |-> NullKey, lots |-> << >>, indexById |-> << >>, ts |-> 0]

\* function saveAreaCache(key, lots), called at time t
saveAreaCacheMerging(cache, key, lots, t) ==
  [ key |-> key, lots |-> lots, ts |-> t,
    indexById |-> [ id \in DOMAIN cache.indexById \cup DOMAIN BuildIndex(lots) |->
                      IF id \in DOMAIN BuildIndex(lots)
                        THEN BuildIndex(lots)[id] ELSE cache.indexById[id] ] ]
saveAreaCache(cache, key, lots, t) ==
  [key |-> key, lots |-> lots, indexById |-> BuildIndex(lots), ts |-> t]

\* function readAreaCache(key, maxAgeMs = 10 * 60 * 1000), called at time t:
\* null (hit = FALSE) or areaCache
Miss == [hit |-> FALSE]
Hit(v) == [hit |-> TRUE, val |-> v]
readAreaCacheEarly(cache, key, t) ==
  IF cache.key # key THEN Miss
  ELSE IF t - cache.ts >= AreaTTL THEN Miss
  ELSE Hit(cache)
readAreaCache(cache, key, t) ==
  IF cache.key # key THEN Miss
  ELSE IF t - cache.ts > AreaTTL THEN Miss
  ELSE Hit(cache)

\* function saveIdCache(id, lot), called at time t
saveIdCacheKeepTs(cache, id, lot, t) ==
  IF id \in DOMAIN cache
    THEN [cache EXCEPT ![id] = [lot |-> lot, ts |-> @.ts]]
    ELSE [x \in DOMAIN cache \cup {id} |->
            IF x = id THEN [lot |-> lot, ts |-> t] ELSE cache[x]]
saveIdCache(cache, id, lot, t) ==
  [x \in DOMAIN cache \cup {id} |->
     IF x = id THEN [lot |-> lot, ts |-> t] ELSE cache[x]]

\* function readIdCache(id, maxAgeMs = 60 * 60 * 1000), called at time t:
\* what it returns, and the map it leaves
readIdCacheRet(cache, id, t) ==
  IF id \notin DOMAIN cache THEN Miss
  ELSE IF t - cache[id].ts > IdTTL THEN Miss
  ELSE Hit(cache[id].lot)
readIdCacheMap(cache, id, t) ==
  IF id \in DOMAIN cache /\ t - cache[id].ts > IdTTL
    THEN [x \in DOMAIN cache \ {id} |-> cache[x]]
    ELSE cache

NoOp == [name |-> "none"]

\* The four cache functions, each called by itself.
SaveAreaCache(keys, snapshots) ==
  \E key \in keys, lots \in snapshots :
    /\ areaCache' = saveAreaCache(areaCache, key, lots, now)
    /\ areaSavedAt' = [areaSavedAt EXCEPT ![key] = now]
    /\ op' = [name |-> "saveAreaCache", key |-> key, lots |-> lots]
    /\ UNCHANGED <<singleIdCache, idSavedAt>>

ReadAreaCache ==
  \E key \in AreaKeys :
    /\ op' = [name |-> "readAreaCache", key |-> key,
              ret |-> readAreaCache(areaCache, key, now)]
    /\ UNCHANGED <<areaCache, areaSavedAt, singleIdCache, idSavedAt>>

SaveIdCache ==
  \E id \in OsmIds, v \in 1..2 :
    /\ singleIdCache' = saveIdCache(singleIdCache, id, Lot(id, v), now)
    /\ idSavedAt' = [idSavedAt EXCEPT ![id] = now]
    /\ op' = [name |-> "saveIdCache", id |-> id]
    /\ UNCHANGED <<areaCache, areaSavedAt>>

ReadIdCache ==
  \E id \in OsmIds :
    /\ op' = [name |-> "readIdCache", id |-> id,
              ret |-> readIdCacheRet(singleIdCache, id, now)]
    /\ singleIdCache' = readIdCacheMap(singleIdCache, id, now)
    /\ UNCHANGED <<areaCache, areaSavedAt, idSavedAt>>

cacheInit ==
  /\ areaCache = areaCacheInit
  /\ singleIdCache = << >>
  /\ op = NoOp
  /\ areaSavedAt = [k \in AreaKeys |-> -1]
  /\ idSavedAt = [id \in OsmIds |-> -1]

clockInit == now = 0 /\ ticks = 0

\* ------------------------------------------------------------------------
\* fetchOpenStreetMapParkingById (server.js 298-322)
\* ------------------------------------------------------------------------
\* The ids a caller passes: "osm-<number>" or the raw number.
RawIds == {"osm-1", "1", "osm-2", "2"}

\* const id = String(osmId).startsWith('osm-') ? String(osmId) : `osm-${osmId}`
NormalizeId(osmId) ==
  CASE osmId = "osm-1" -> "osm-1"
    [] osmId = "osm-2" -> "osm-2"
    [] osmId = "1"     -> "osm-1"
    [] osmId = "2"     -> "osm-2"

\* callOverpass(query, { attempts: 3, timeoutMs: 25000 })
ByIdAttempts == 3

\* The version number standing for the fields of a lot mapped from an
\* Overpass answer (mapOverpassToParkingLots draws them at random).
FetchedVersions == {9}

\* The clock moves past one TTL or the other; an upstream answer is a 2xx or
\* a transport error; the area tier is written under one key.
ByIdSteps == {AreaTTL + 1, IdTTL + 1}
ByIdOutcomes == {"2xx", "transport"}
ByIdAreaKey == "33.424,-111.928,5000"
ByIdSnapshots == { << Lot("osm-1", 2), Lot("osm-2", 2) >>, << Lot("osm-2", 3), Lot("osm-2", 4) >> }

biIdle ==
  [ pc     |-> "idle",    \* idle | upstream | returned | thrown
    osmId  |-> "null",
    id     |-> "null",
    source |-> "none",    \* id-cache | area-cache | overpass
    lot    |-> NoLot,
    pre    |-> [idFresh |-> FALSE, inIndex |-> FALSE] ]

\* What held when the call was made, from the history of writes rather than
\* from the caches' own fields: the id was written to the entity tier at most
\* IdTTL ago; the list last given to saveAreaCache has a lot of this id.
PreOf(id) ==
  [ idFresh |-> idSavedAt[id] >= 0 /\ now - idSavedAt[id] <= IdTTL,
    inIndex |-> \E k \in 1..Len(areaCache.lots) : areaCache.lots[k].id = id ]

\* 2) `saveIdCache(id, lot)` on an area-index hit
ByIdAreaSaveSkipped(cache, id, lot, t) == cache
ByIdAreaSave(cache, id, lot, t) == saveIdCache(cache, id, lot, t)

\* The call up to its first suspension point: 1) the per-id cache, 2) the
\* area cache's index, 3) callOverpass is entered.
ById_Call ==
  /\ bi.pc \in {"idle", "returned", "thrown"}
  /\ \E osmId \in RawIds :
       LET id     == NormalizeId(osmId)
           cached == readIdCacheRet(singleIdCache, id, now)
           map1   == readIdCacheMap(singleIdCache, id, now)
           call   == [biIdle EXCEPT !.osmId = osmId, !.id = id, !.pre = PreOf(id)]
       IN  IF cached.hit
             THEN /\ bi' = [call EXCEPT !.pc = "returned", !.source = "id-cache",
                                        !.lot = cached.val]
                  /\ singleIdCache' = map1
                  /\ co' = coIdle
                  /\ UNCHANGED idSavedAt
           ELSE IF id \in DOMAIN areaCache.indexById
             THEN LET lot == areaCache.indexById[id]
                  IN  /\ bi' = [call EXCEPT !.pc = "returned",
                                            !.source = "area-cache", !.lot = lot]
                      /\ singleIdCache' = ByIdAreaSave(map1, id, lot, now)
                      /\ idSavedAt' = [idSavedAt EXCEPT ![id] = now]
                      /\ co' = coIdle
           ELSE /\ bi' = [call EXCEPT !.pc = "upstream"]
                /\ singleIdCache' = map1
                /\ co' = coEnter("byId", ByIdAttempts)
                /\ UNCHANGED idSavedAt
  /\ op' = NoOp
  /\ UNCHANGED <<now, ticks, areaCache, areaSavedAt, dbVars, apiVars>>

\* callOverpass has ended: its error is passed on; its data is mapped, the
\* first lot is saved and returned, and no lot is 'OSM lot not found'.
ById_Resume ==
  /\ bi.pc = "upstream"
  /\ co.caller = "byId"
  /\ co.pc \in {"returned", "thrown"}
  /\ IF co.pc = "thrown"
       THEN /\ bi' = [bi EXCEPT !.pc = "thrown"]
            /\ UNCHANGED <<singleIdCache, idSavedAt>>
       ELSE \/ /\ bi' = [bi EXCEPT !.pc = "thrown"]      \* data.elements is empty
               /\ UNCHANGED <<singleIdCache, idSavedAt>>
            \/ \E v \in FetchedVersions :
                 LET lot == Lot(bi.id, v)
                 IN  /\ bi' = [bi EXCEPT !.pc = "returned", !.source = "overpass",
                                         !.lot = lot]
                     /\ singleIdCache' = saveIdCache(singleIdCache, bi.id, lot, now)
                     /\ idSavedAt' = [idSavedAt EXCEPT ![bi.id] = now]
  /\ UNCHANGED <<co, now, ticks, areaCache, areaSavedAt, op, dbVars, apiVars>>

\* ------------------------------------------------------------------------
\* The record store (server.js 41-79, 596-632)
\* ------------------------------------------------------------------------
\* The _id of the stored lots, in the order ParkingLot.find() returns them,
\* and an _id that no stored lot has.
LotOrder == << "lotA", "lotB" >>
LotIds == { LotOrder[k] : k \in 1..Len(LotOrder) }
UnknownLot == "lotX"

\* ParkingLot.find(): the _id of the stored lots, in order
StoredIds(stored) == SelectSeq(LotOrder, LAMBDA id : id \in DOMAIN stored)

\* A ParkingLot document (its name, location and sensors play no part).
LotDoc(id, total, available, updated) ==
  [ _id |-> id, totalSpots |-> total, availableSpots |-> available,
    lastUpdate |-> updated ]

\* The lots as stored when the server starts to listen: two lots, with few
\* spots so that the job's change of -3..3 meets both ends of [0, totalSpots].
SeededLots ==
  [ id \in LotIds |->
      IF id = "lotA" THEN LotDoc(id, 2, 1, 0) ELSE LotDoc(id, 4, 4, 0) ]

\* Date.getHours() and Date.getDay() of a time in milliseconds (time 0 is
\* the start of a Thursday, as the epoch is in UTC).
GetHours(t) == (t \div 3600000) % 24
GetDay(t) == ((t \div 86400000) + 4) % 7

\* new HistoricalData({ ... }) of recordCurrentState, made at time t
HistoricalRecord(id, t, available) ==
  [ parkingLotId |-> id, timestamp |-> t, availableSpots |-> available,
    dayOfWeek |-> GetDay(t), hour |-> GetHours(t) ]

\* record.save() of recordCurrentState and HistoricalData.create() of
\* seedDatabase: a document is added to the collection
AddRecordUpsert(hist, rec) ==
  IF \E k \in 1..Len(hist) : hist[k].parkingLotId = rec.parkingLotId
    THEN LET last == CHOOSE k \in 1..Len(hist) :
                       /\ hist[k].parkingLotId = rec.parkingLotId
                       /\ \A m \in (k + 1)..Len(hist) :
                            hist[m].parkingLotId # rec.parkingLotId
         IN  [hist EXCEPT ![last] = rec]
    ELSE Append(hist, rec)
AddRecord(hist, rec) == Append(hist, rec)

\* io.emit('parking-update', { lotId, availableSpots, timestamp })
UpdateEvent(doc) ==
  [ lotId |-> doc._id, availableSpots |-> doc.availableSpots,
    timestamp |-> doc.lastUpdate ]

\* ------------------------------------------------------------------------
\* The background job (server.js 567-593)
\* ------------------------------------------------------------------------
\* const change = Math.floor(Math.random() * 7) - 3
Changes == -3..3

\* const newAvailable = Math.max(0, Math.min(lot.totalSpots, lot.availableSpots + change))
NewAvailable(doc, change) ==
  Max(0, Min(doc.totalSpots, doc.availableSpots + change))

\* The cycles that can be in progress at once: the timer has no guard, and a
\* period that fires while a cycle is suspended starts another one.
CycleSlots == {1, 2}

jobIdle ==
  [ pc    |-> "idle",    \* idle | find | save | recFind | recSave
    docs  |-> << >>,     \* const lots = await ParkingLot.find()
    k     |-> 0,         \* the position of `lot` in lots
    dirty |-> FALSE,     \* whether lot.availableSpots was set to a new value
    rec   |-> 0,         \* recordCurrentState: lot.availableSpots as found
    saved |-> << >>,     \* the documents whose save() resolved, in order
    emitted |-> << >> ]  \* the 'parking-update' events of this cycle, in order

\* The loop from the top of iteration k to lot.save(): the document is
\* changed in memory and its save is awaited; past the last lot the cycle
\* is over.
jobIterate(j, k, change, t) ==
  IF k > Len(j.docs) THEN [j EXCEPT !.pc = "idle"]
  ELSE LET doc == j.docs[k]
           new == NewAvailable(doc, change)
       IN  [j EXCEPT !.pc = "save", !.k = k,
                     !.dirty = (new # doc.availableSpots),
                     !.docs[k] = [doc EXCEPT !.availableSpots = new,
                                             !.lastUpdate = t]]

\* lot.save() writes the paths that were modified: lastUpdate always,
\* availableSpots when the value assigned differs from the one loaded.
jobSaved(stored, j) ==
  LET doc == j.docs[j.k]
  IN  [stored EXCEPT ![doc._id] =
         [@ EXCEPT !.lastUpdate = doc.lastUpdate,
                   !.availableSpots =
                      IF j.dirty THEN doc.availableSpots ELSE @]]

\* Time is counted in periods of the timer: setInterval(..., 30000).
JobPeriod == 30000

\* The period elapses: the callback starts a cycle and awaits find().
Job_TimerFires(c) ==
  /\ job[c].pc = "idle"
  /\ \A c2 \in CycleSlots : c2 < c => job[c2].pc # "idle"
  /\ started.cycles + started.puts < MaxStarts
  /\ job' = [job EXCEPT ![c] = [jobIdle EXCEPT !.pc = "find"]]
  /\ started' = [started EXCEPT !.cycles = @ + 1]
  /\ now' = now + JobPeriod
  /\ UNCHANGED <<parkingLots, history, put, webVars, ticks, apiVars>>

\* find() resolves with the documents as stored now.
Job_Find(c) ==
  /\ job[c].pc = "find"
  /\ \E change \in Changes :
       job' = [job EXCEPT ![c] =
                 jobIterate([jobIdle EXCEPT !.docs = [k \in 1..Len(StoredIds(parkingLots)) |->
                                                   parkingLots[StoredIds(parkingLots)[k]]]],
                            1, change, now)]
  /\ UNCHANGED <<parkingLots, history, put, started, webVars, clockVars, apiVars>>

\* After the save (and the recording, when made): the event is emitted and
\* the loop goes on to the next lot.
jobNextWithoutEmit(j, change) == jobIterate(j, j.k + 1, change, now)
jobEmitAndNext(j, change) ==
  jobIterate([j EXCEPT !.emitted = Append(@, UpdateEvent(j.docs[j.k]))],
             j.k + 1, change, now)

\* lot.save() resolves; Math.random() < 0.17 decides on the recording.
Job_Save(c) ==
  /\ job[c].pc = "save"
  /\ parkingLots' = jobSaved(parkingLots, job[c])
  /\ LET saved == [job[c] EXCEPT !.saved = Append(@, job[c].docs[job[c].k])]
     IN  \/ job' = [job EXCEPT ![c] = [saved EXCEPT !.pc = "recFind"]]
         \/ \E change \in Changes :
              job' = [job EXCEPT ![c] = jobEmitAndNext(saved, change)]
  /\ UNCHANGED <<history, put, started, webVars, clockVars, apiVars>>

\* lot.save() rejects: the catch around the whole loop logs it, and the
\* cycle is over.
Job_SaveFails(c) ==
  /\ job[c].pc = "save"
  /\ job' = [job EXCEPT ![c].pc = "idle"]
  /\ UNCHANGED <<parkingLots, history, put, started, webVars, clockVars, apiVars>>

\* recordCurrentState: findById resolves.
Job_RecFind(c) ==
  /\ job[c].pc = "recFind"
  /\ job' = [job EXCEPT ![c].pc = "recSave",
                        ![c].rec = parkingLots[job[c].docs[job[c].k]._id].availableSpots]
  /\ UNCHANGED <<parkingLots, history, put, started, webVars, clockVars, apiVars>>

\* recordCurrentState: record.save() resolves, or rejects and is logged.
Job_RecSave(c) ==
  /\ job[c].pc = "recSave"
  /\ \/ history' = AddRecord(history,
                      HistoricalRecord(job[c].docs[job[c].k]._id, now, job[c].rec))
     \/ UNCHANGED history
  /\ \E change \in Changes : job' = [job EXCEPT ![c] = jobEmitAndNext(job[c], change)]
  /\ UNCHANGED <<parkingLots, put, started, webVars, clockVars, apiVars>>

\* ------------------------------------------------------------------------
\* PUT /api/parking-lots/:id (server.js 464-494)
\* ------------------------------------------------------------------------
\* The availableSpots a caller sends, and the ids it sends them for.
PutValues == {-1, 3}
PutIds == LotIds \cup {UnknownLot}

putIdle ==
  [ pc     |-> "idle",   \* idle | recFind | recSave | done
    id     |-> "null",
    sent   |-> 0,
    doc    |-> LotDoc("null", 0, 0, 0),   \* findByIdAndUpdate's result
    rec    |-> 0,
    status |-> 0,
    emitted |-> << >> ]  \* the 'parking-update' events of this request

\* findByIdAndUpdate(id, { availableSpots, sensors, lastUpdate: new Date() },
\* { new: true }): the document after the update, stored in one step.
UpdatedDoc(doc, available, t) ==
  [doc EXCEPT !.availableSpots = available, !.lastUpdate = t]

Put_Update ==
  /\ seed.pc = "done"          \* server.listen follows seedDatabase
  /\ put.pc \in {"idle", "done"}
  /\ started.cycles + started.puts < MaxStarts
  /\ started' = [started EXCEPT !.puts = @ + 1]
  /\ \E id \in PutIds, v \in PutValues :
       IF id \in DOMAIN parkingLots
         THEN LET doc == UpdatedDoc(parkingLots[id], v, now)
              IN  /\ parkingLots' = [parkingLots EXCEPT ![id] = doc]
                  /\ put' = [putIdle EXCEPT !.pc = "recFind", !.id = id,
                                            !.sent = v, !.doc = doc]
         ELSE /\ put' = [putIdle EXCEPT !.pc = "done", !.id = id, !.sent = v,
                                        !.status = 404]
              /\ UNCHANGED parkingLots
  /\ UNCHANGED <<history, job, webVars, clockVars, apiVars>>

\* recordCurrentState(lot._id): findById resolves.
Put_RecFind ==
  /\ put.pc = "recFind"
  /\ put' = [put EXCEPT !.pc = "recSave", !.rec = parkingLots[put.id].availableSpots]
  /\ UNCHANGED <<parkingLots, history, job, started, webVars, clockVars, apiVars>>

\* record.save() resolves (or rejects and is logged); the event is emitted
\* and the document sent back.
Put_RecSave ==
  /\ put.pc = "recSave"
  /\ \/ history' = AddRecord(history, HistoricalRecord(put.id, now, put.rec))
     \/ UNCHANGED history
  /\ put' = [put EXCEPT !.pc = "done", !.status = 200,
                        !.emitted = Append(@, UpdateEvent(put.doc))]
  /\ UNCHANGED <<parkingLots, job, started, webVars, clockVars, apiVars>>

dbInit ==
  /\ parkingLots = SeededLots
  /\ history = << >>
  /\ job = [c \in CycleSlots |-> jobIdle]
  /\ put = putIdle
  /\ started = [cycles |-> 0, puts |-> 0]

\* ------------------------------------------------------------------------
\* seedDatabase (server.js 596-632), awaited before server.listen
\* ------------------------------------------------------------------------
\* 0.6 + Math.sin((hour / 24) * Math.PI * 2) * 0.3, in thousandths, for the
\* hours the records of the model fall in
BaseOccupancy(hour) ==
  CASE hour = 0  -> 600
    [] hour = 23 -> 522
    [] hour = 22 -> 450
    [] hour = 21 -> 388

\* new Date(now.getTime() - i * 30 * 60000), and the record created for it:
\* availableSpots = Math.floor(lot.totalSpots * (1 - baseOccupancy))
SeedTimestamp(t, i) == t - i * 30 * 60000
SeedRecord(lot, t, i) ==
  LET timestamp == SeedTimestamp(t, i)
  IN  HistoricalRecord(lot._id, timestamp,
        (lot.totalSpots * (1000 - BaseOccupancy(GetHours(timestamp)))) \div 1000)

seedDone  == [pc |-> "done", lots |-> << >>, at |-> 0, k |-> 0, i |-> 0, created |-> 0]
seedStart == [seedDone EXCEPT !.pc = "count"]   \* count | insert | find | create | done

\* countDocuments() resolves: a store with lots is left as it is
Seed_Count ==
  /\ seed.pc = "count"
  /\ seed' = [seed EXCEPT !.pc = IF StoredIds(parkingLots) = << >> THEN "insert" ELSE "done"]
  /\ UNCHANGED <<nb, mirrorUp, pd, cl, mp, predictionCache, ls, io, webVars, clockVars, dbVars>>

\* ParkingLot.insertMany(lots) resolves
Seed_Insert ==
  /\ seed.pc = "insert"
  /\ parkingLots' = SeededLots
  /\ seed' = [seed EXCEPT !.pc = "find"]
  /\ UNCHANGED <<nb, mirrorUp, pd, cl, mp, predictionCache, ls, io, webVars, clockVars,
                 history, job, put, started>>

\* ParkingLot.find() resolves; const now = new Date(); the first create
seedNext(sd, k, i) ==
  IF i < SeedRecords THEN [sd EXCEPT !.pc = "create", !.k = k, !.i = i]
  ELSE IF k < Len(sd.lots) THEN [sd EXCEPT !.pc = "create", !.k = k + 1, !.i = 0]
  ELSE [sd EXCEPT !.pc = "done"]

Seed_Find ==
  /\ seed.pc = "find"
  /\ LET found == [k \in 1..Len(StoredIds(parkingLots)) |->
                     parkingLots[StoredIds(parkingLots)[k]]]
     IN  seed' = IF found = << >>
                   THEN [seed EXCEPT !.pc = "done"]
                   ELSE seedNext([seed EXCEPT !.lots = found, !.at = now], 1, 0)
  /\ UNCHANGED <<nb, mirrorUp, pd, cl, mp, predictionCache, ls, io, webVars, clockVars, dbVars>>

\* HistoricalData.create({...}) resolves, for lot k and i
Seed_Create ==
  /\ seed.pc = "create"
  /\ history' = AddRecord(history, SeedRecord(seed.lots[seed.k], seed.at, seed.i))
  /\ seed' = seedNext([seed EXCEPT !.created = @ + 1], seed.k, seed.i + 1)
  /\ UNCHANGED <<nb, mirrorUp, pd, cl, mp, predictionCache, ls, io, webVars, clockVars,
                 parkingLots, job, put, started>>

\* ------------------------------------------------------------------------
\* GET /api/parking-lots/real (server.js 263-296, 375-425)
\* ------------------------------------------------------------------------
\* Coordinates are counted in ten-thousandths of a degree. A query value is
\* the text of the parameter; parseFloat / parseInt give a number or NaN,
\* written <<number>> and << >>.
ParseNumber(text) ==
  CASE text = "0" -> <<0>>
    [] text = "40.7128" -> <<407128>>
    [] text = "-74.0060" -> <<-740060>>
    [] text = "1000" -> <<1000>>
    [] OTHER -> << >>

\* parsed || fallback: NaN and 0 are falsy
OrElse(parsed, fallback) ==
  IF parsed = << >> \/ parsed[1] = 0 THEN fallback ELSE parsed[1]

DefaultLat == 334242
DefaultLng == -1119281
DefaultRadius == 5000

\* The query strings sent.
NearbyQueries ==
  { [lat |-> "absent", lng |-> "absent", radius |-> "absent"],
    [lat |-> "0", lng |-> "absent", radius |-> "absent"],
    [lat |-> "40.7128", lng |-> "-74.0060", radius |-> "absent"],
    [lat |-> "40.7128", lng |-> "-74.0060", radius |-> "1000"] }

\* fetchOpenStreetMapParking: the loop is over OVERPASS_ENDPOINTS, a name
\* the program declares nowhere (the mirrors are OVERPASS_MIRRORS), so the
\* loop header throws a ReferenceError outside the try of the loop body,
\* before any mirror is asked. Neither callOverpass nor the area cache is
\* used: what is thrown, the posts made and the delays waited.
fetchOpenStreetMapParking(lat, lng, radius) ==
  [ thrown |-> [kind |-> "ReferenceError", attempt |-> -1],
    ret |-> << >>, posts |-> << >>, delays |-> << >> ]

\* ParkingLot.find().limit(10): the stored lots, ten at most
Limit(seq, n) == SubSeq(seq, 1, Min(n, Len(seq)))

\* The property names of a lot as mapOverpassToParkingLots builds it
\* (server.js 250-259), and as the fallback of the route builds it from a
\* stored document (server.js 401-413).
MappedLotFields ==
  { "id", "name", "totalSpots", "availableSpots", "location", "lastUpdate",
    "predictedAvailability", "confidence" }
StoredDocFields ==
  { "_id", "name", "totalSpots", "availableSpots", "location", "lastUpdate" }
FallbackLotFields ==
  { "id", "name", "totalSpots", "availableSpots", "location", "lastUpdate",
    "predictedAvailability", "confidence" }

NearbyReqs == {1, 2}

nbIdle ==
  [ pc     |-> "idle",      \* idle | fallback | done
    lat    |-> 0, lng |-> 0, radius |-> 0,
    at     |-> 0,           \* when the request was made
    after  |-> {},          \* the requests answered before this one was made
    posts  |-> << >>,       \* the mirrors asked for this request
    delays |-> << >>,       \* the backoff delays waited for this request
    status |-> 0,
    source |-> "none",      \* overpass | db-fallback | none
    body   |-> << >>,       \* the ids of the lots sent
    fields |-> {},          \* the property names of each lot sent
    threw  |-> FALSE,       \* history: fetchOpenStreetMapParking threw
    findRejected |-> FALSE ]  \* history: ParkingLot.find() rejected

\* The handler up to its first await that suspends: the parameters are
\* parsed, the fetch throws, the catch asks the store for its lots.
Nearby_Request(r) ==
  /\ nb[r].pc = "idle"
  /\ \A r2 \in NearbyReqs : r2 < r => nb[r2].pc # "idle"
  /\ \E q \in NearbyQueries :
       LET lat == OrElse(ParseNumber(q.lat), DefaultLat)
           lng == OrElse(ParseNumber(q.lng), DefaultLng)
           radius == OrElse(ParseNumber(q.radius), DefaultRadius)
           real == fetchOpenStreetMapParking(lat, lng, radius)
           made == [nb[r] EXCEPT !.lat = lat, !.lng = lng, !.radius = radius,
                                 !.at = now,
                                 !.after = {r2 \in NearbyReqs : nb[r2].pc = "done"},
                                 !.posts = real.posts, !.delays = real.delays]
       IN  nb' = [nb EXCEPT ![r] =
                    IF real.thrown # NoErr
                      THEN [made EXCEPT !.pc = "fallback", !.threw = TRUE]
                    ELSE IF Len(real.ret) = 0
                      THEN [made EXCEPT !.pc = "done", !.status = 404]
                    ELSE [made EXCEPT !.pc = "done", !.status = 200,
                                      !.source = "overpass", !.body = real.ret,
                                      !.fields = MappedLotFields]]
  /\ UNCHANGED <<mirrorUp, pd, cl, mp, seed, predictionCache, ls, io, webVars, clockVars, dbVars>>

\* ParkingLot.find().limit(10) resolves, or rejects: the stored lots are
\* sent in the shape of real ones, and 503 when there is none to send.
Nearby_Fallback(r) ==
  /\ nb[r].pc = "fallback"
  /\ \/ LET found == Limit(StoredIds(parkingLots), 10)
        IN  nb' = [nb EXCEPT ![r] =
                     IF Len(found) > 0
                       THEN [@ EXCEPT !.pc = "done", !.status = 200,
                                      !.source = "db-fallback", !.body = found,
                                      !.fields = FallbackLotFields]
                       ELSE [@ EXCEPT !.pc = "done", !.status = 503]]
     \/ nb' = [nb EXCEPT ![r] = [@ EXCEPT !.pc = "done", !.status = 503,
                                          !.findRejected = TRUE]]
  /\ UNCHANGED <<mirrorUp, pd, cl, mp, seed, predictionCache, ls, io, webVars, clockVars, dbVars>>

\* ------------------------------------------------------------------------
\* ParkingPredictor.predictAvailability (server.js 83-129)
\* ------------------------------------------------------------------------
RECURSIVE SumOf(_)
SumOf(s) == IF s = << >> THEN 0 ELSE Head(s) + SumOf(Tail(s))

\* sort({ timestamp: -1 }): the latest record first (of two records of one
\* timestamp, the one stored first)
RECURSIVE SortByTimestampDesc(_)
SortByTimestampDesc(records) ==
  IF records = << >> THEN << >>
  ELSE LET latest == CHOOSE i \in 1..Len(records) :
                       /\ \A j \in 1..Len(records) :
                            records[j].timestamp <= records[i].timestamp
                       /\ \A j \in 1..(i - 1) :
                            records[j].timestamp < records[i].timestamp
       IN  <<records[latest]>> \o
           SortByTimestampDesc(SubSeq(records, 1, latest - 1) \o
                               SubSeq(records, latest + 1, Len(records)))

\* Array.prototype.slice(from, to)
Slice(s, from, to) == SubSeq(s, from + 1, Min(to, Len(s)))

\* record => record.availableSpots, over a list of records
AvailableOf(records) == [k \in 1..Len(records) |-> records[k].availableSpots]

\* HistoricalData.find({ parkingLotId, dayOfWeek, hour }).sort({ timestamp: -1 }).limit(20)
HistoricalPattern(records, id, day, hour) ==
  Limit(SortByTimestampDesc(SelectSeq(records,
          LAMBDA rec : rec.parkingLotId = id /\ rec.dayOfWeek = day /\ rec.hour = hour)),
        20)

\* HistoricalData.find({ parkingLotId }).sort({ timestamp: -1 }).limit(6)
RecentData(records, id) ==
  Limit(SortByTimestampDesc(SelectSeq(records, LAMBDA rec : rec.parkingLotId = id)), 6)

\* Three times the trend: both sums are divided by 3, whatever the number
\* of records in the slice.
TrendTimes3(recent) ==
  IF Len(recent) >= 2
    THEN SumOf(AvailableOf(Slice(recent, 0, 3))) - SumOf(AvailableOf(Slice(recent, 3, 6)))
    ELSE 0

\* Math.round(num / den) for den > 0: the nearest integer, halves upwards
RoundDiv(num, den) == (2 * num + den) \div (2 * den)

\* Math.round(avgAvailability * 0.6 + lot.availableSpots * 0.3 + trend * 0.1),
\* in exact arithmetic: sum is the sum of the n matched values, available
\* the lot's availableSpots and trend3 three times the trend.
PredictedSpotsNoTrend(sum, n, available, trend3) ==
  RoundDiv(36 * sum + 18 * available * n, 60 * n)
PredictedSpots(sum, n, available, trend3) ==
  RoundDiv(36 * sum + 18 * available * n + 2 * trend3 * n, 60 * n)

\* Math.max(0, Math.min(lot.totalSpots, predictedSpots))
AdjustedPrediction(total, predicted) == Max(0, Min(total, predicted))

\* n * n times the variance of the matched values
VarianceTimesN2(values) ==
  Len(values) * SumOf([k \in 1..Len(values) |-> values[k] * values[k]])
    - SumOf(values) * SumOf(values)

\* Whether Math.round(Math.min(95, Math.max(70, 100 - (stdDev / total) * 100)))
\* is at least k, for total > 0: it is when k <= 70, and for k in 71..95 when
\* 100 - (stdDev / total) * 100 >= k - 1/2, that is when
\* stdDev <= (201 - 2k) * total / 200.
ConfidenceAtLeast(k, total, n, varN2) ==
  \/ k <= 70
  \/ k <= 95 /\ 40000 * varN2 <= (201 - 2 * k) * (201 - 2 * k) * total * total * n * n

\* The confidence returned, and whether it is NaN: with totalSpots = 0 the
\* quotient is 0/0 = NaN when all matched values are equal (and NaN passes
\* through Math.max, Math.min and Math.round), and Infinity otherwise; with
\* totalSpots < 0 the quotient is not positive.
Confidence(total, n, varN2) ==
  IF total = 0
    THEN IF varN2 = 0 THEN [isNaN |-> TRUE, value |-> 0]
                      ELSE [isNaN |-> FALSE, value |-> 70]
  ELSE IF total < 0 THEN [isNaN |-> FALSE, value |-> 95]
  ELSE [isNaN |-> FALSE,
        value |-> CHOOSE k \in 70..95 :
                    /\ ConfidenceAtLeast(k, total, n, varN2)
                    /\ ~ConfidenceAtLeast(k + 1, total, n, varN2)]

\* Math.floor(Math.random() * 10 - 5)
NoDataDeltas == -5..4

\* Math.max(0, lot.availableSpots + delta), the estimate without records
NoDataPredictionNoFloor(available, delta) == available + delta
NoDataPrediction(available, delta) == Max(0, available + delta)

\* The ids asked about, and req.query.minutes (parseInt(...) || 30)
PredictIds == {"lotA", UnknownLot}
MinutesAhead == {30, 90}

NoResult == [predictedSpots |-> 0, confidence |-> [isNaN |-> FALSE, value |-> 0]]

pdIdle ==
  [ pc          |-> "idle",  \* idle | findLot | findPattern | findRecent | returned | thrown
    id          |-> "null",
    minutesAhead |-> 0,
    lot         |-> LotDoc("null", 0, 0, 0),
    targetDay   |-> 0,
    targetHour  |-> 0,
    matched     |-> << >>,   \* the availableSpots of historicalPattern
    recent      |-> << >>,   \* the availableSpots of recentData
    trend3      |-> 0,       \* three times `trend`
    predicted   |-> 0,       \* predictedSpots before it is adjusted
    result      |-> NoResult,
    error       |-> "none",
    status      |-> 0 ]      \* of GET /api/parking-lots/:id/predict, which made the call

\* The call: ParkingLot.findById is awaited.
Predict_Call ==
  /\ pd.pc = "idle"
  /\ \E id \in PredictIds, m \in MinutesAhead :
       pd' = [pdIdle EXCEPT !.pc = "findLot", !.id = id, !.minutesAhead = m]
  /\ UNCHANGED <<nb, mirrorUp, cl, mp, seed, predictionCache, ls, io, webVars, clockVars, dbVars>>

\* findById resolves: no lot is an error; otherwise the target time is
\* taken from the clock and the matching records are asked for.
Predict_FindLot ==
  /\ pd.pc = "findLot"
  /\ IF pd.id \in DOMAIN parkingLots
       THEN LET targetTime == now + pd.minutesAhead * 60000
            IN  pd' = [pd EXCEPT !.pc = "findPattern",
                                 !.lot = parkingLots[pd.id],
                                 !.targetHour = GetHours(targetTime),
                                 !.targetDay = GetDay(targetTime)]
       ELSE \* thrown, logged and thrown again; the route's catch answers 500
            pd' = [pd EXCEPT !.pc = "thrown", !.error = "Parking lot not found",
                             !.status = 500]
  /\ UNCHANGED <<nb, mirrorUp, cl, mp, seed, predictionCache, ls, io, webVars, clockVars, dbVars>>

\* The matching records arrive: with none the estimate is the current
\* count moved by a random amount; otherwise the recent records are asked for.
Predict_FindPattern ==
  /\ pd.pc = "findPattern"
  /\ LET pattern == HistoricalPattern(history, pd.id, pd.targetDay, pd.targetHour)
     IN  IF Len(pattern) = 0
           THEN \E delta \in NoDataDeltas :
                  pd' = [pd EXCEPT !.pc = "returned", !.status = 200,
                           !.result = [predictedSpots |-> NoDataPrediction(pd.lot.availableSpots, delta),
                                       confidence |-> [isNaN |-> FALSE, value |-> 60]]]
           ELSE pd' = [pd EXCEPT !.pc = "findRecent", !.matched = AvailableOf(pattern)]
  /\ UNCHANGED <<nb, mirrorUp, cl, mp, seed, predictionCache, ls, io, webVars, clockVars, dbVars>>

\* (A predictor that stores what it predicts as the lot's count.)
Predict_FindRecentSaving ==
  /\ pd.pc = "findRecent"
  /\ LET recent == RecentData(history, pd.id)
         predicted == PredictedSpots(SumOf(pd.matched), Len(pd.matched),
                                     pd.lot.availableSpots, TrendTimes3(recent))
         adjusted == AdjustedPrediction(pd.lot.totalSpots, predicted)
     IN  /\ pd' = [pd EXCEPT !.pc = "returned", !.status = 200,
                     !.recent = AvailableOf(recent),
                     !.trend3 = TrendTimes3(recent),
                     !.predicted = predicted,
                     !.result = [predictedSpots |-> adjusted,
                                 confidence |-> Confidence(pd.lot.totalSpots, Len(pd.matched),
                                                           VarianceTimesN2(pd.matched))]]
         /\ parkingLots' = [parkingLots EXCEPT ![pd.id].availableSpots = adjusted + 1]
  /\ UNCHANGED <<nb, mirrorUp, cl, mp, seed, predictionCache, ls, io, webVars, clockVars, history, job, put, started>>

\* The recent records arrive: prediction and confidence are computed.
Predict_FindRecent ==
  /\ pd.pc = "findRecent"
  /\ LET recent == RecentData(history, pd.id)
         n == Len(pd.matched)
         predicted == PredictedSpots(SumOf(pd.matched), n, pd.lot.availableSpots,
                                     TrendTimes3(recent))
     IN  pd' = [pd EXCEPT !.pc = "returned", !.status = 200,
                  !.recent = AvailableOf(recent),
                  !.trend3 = TrendTimes3(recent),
                  !.predicted = predicted,
                  !.result = [predictedSpots |-> AdjustedPrediction(pd.lot.totalSpots, predicted),
                              confidence |-> Confidence(pd.lot.totalSpots, n,
                                                        VarianceTimesN2(pd.matched))]]
  /\ UNCHANGED <<nb, mirrorUp, cl, mp, seed, predictionCache, ls, io, webVars, clockVars, dbVars>>

\* The mirrors that would answer: all of them, the third only, or none.
\* ------------------------------------------------------------------------
\* GET /api/parking-lots and the PredictionCache collection
\* (server.js 69-75, 327-370)
\* ------------------------------------------------------------------------
\* createdAt: { expires: 300 }; predictedFor: { $gte: Date.now() + 25 * 60000 };
\* predictedFor: new Date(Date.now() + 30 * 60000)
CacheExpires == 300 * 1000
CachedFrom == 25 * 60000
PredictedFor == 30 * 60000

\* predictAvailability(lot._id, 30) as one step: what it returns for the
\* lots and records stored at time t, delta being its random draw
PredictionAt(lots, records, id, t, minutesAhead, delta) ==
  LET lot     == lots[id]
      target  == t + minutesAhead * 60000
      pattern == HistoricalPattern(records, id, GetDay(target), GetHours(target))
      matched == AvailableOf(pattern)
  IN  IF Len(pattern) = 0
        THEN [ predictedSpots |-> NoDataPrediction(lot.availableSpots, delta),
               confidence |-> [isNaN |-> FALSE, value |-> 60] ]
        ELSE [ predictedSpots |->
                 AdjustedPrediction(lot.totalSpots,
                   PredictedSpots(SumOf(matched), Len(matched), lot.availableSpots,
                                  TrendTimes3(RecentData(records, id)))),
               confidence |-> Confidence(lot.totalSpots, Len(matched),
                                         VarianceTimesN2(matched)) ]

\* PredictionCache.findOne({ parkingLotId, predictedFor: { $gte: ... } }) at
\* time t: the positions of the documents that match, the first one is found
CachedAt(cache, id, t) ==
  { k \in 1..Len(cache) :
      cache[k].parkingLotId = id /\ cache[k].predictedFor >= t + CachedFrom }

ListReqs == {1, 2}
\* the random draw of predictAvailability (the requests take the same steps
\* whatever it is)
ListDeltas == {4}

\* One lot of one request: the async callback of lots.map
lsLot ==
  [ pc         |-> "findOne",  \* findOne | predict | create | done
    cached     |-> FALSE,      \* whether findOne gave a document
    prediction |-> NoResult,
    entry      |-> 0 ]         \* the document given to create(): its createdAt
lsIdle ==
  [ pc     |-> "idle",         \* idle | find | lots | done
    lots   |-> << >>,          \* the _id of the lots found
    each   |-> << >>,          \* per lot found, its callback
    status |-> 0 ]

\* The request arrives: ParkingLot.find() is awaited.
List_Request(r) ==
  /\ ls[r].pc = "idle"
  /\ \A r2 \in ListReqs : r2 < r => ls[r2].pc # "idle"
  /\ ls' = [ls EXCEPT ![r].pc = "find"]
  /\ UNCHANGED <<nb, mirrorUp, pd, cl, mp, seed, predictionCache, io, webVars,
                 clockVars, dbVars>>

\* find() resolves: one callback per lot is started, each awaiting findOne.
List_Find(r) ==
  /\ ls[r].pc = "find"
  /\ LET found == StoredIds(parkingLots)
     IN  ls' = [ls EXCEPT ![r] =
                  [@ EXCEPT !.pc = "lots", !.lots = found,
                            !.each = [k \in 1..Len(found) |-> lsLot]]]
  /\ UNCHANGED <<nb, mirrorUp, pd, cl, mp, seed, predictionCache, io, webVars,
                 clockVars, dbVars>>

\* findOne resolves for lot k: a document is used as it is; without one
\* predictAvailability is awaited.
List_FindOne(r, k) ==
  /\ ls[r].pc = "lots"
  /\ ls[r].each[k].pc = "findOne"
  /\ LET hits == CachedAt(predictionCache, ls[r].lots[k], now)
     IN  ls' = [ls EXCEPT ![r].each[k] =
                  IF hits # {}
                    THEN LET doc == predictionCache[CHOOSE i \in hits : \A j \in hits : i <= j]
                         IN  [@ EXCEPT !.pc = "done", !.cached = TRUE,
                                       !.prediction = [predictedSpots |-> doc.predictedSpots,
                                                       confidence |-> doc.confidence]]
                    ELSE [@ EXCEPT !.pc = "predict"]]
  /\ UNCHANGED <<nb, mirrorUp, pd, cl, mp, seed, predictionCache, io, webVars,
                 clockVars, dbVars>>

\* predictAvailability resolves for lot k: PredictionCache.create is called
\* with the prediction, and awaited.
List_Predict(r, k) ==
  /\ ls[r].pc = "lots"
  /\ ls[r].each[k].pc = "predict"
  /\ \E delta \in ListDeltas :
       ls' = [ls EXCEPT ![r].each[k] =
                [@ EXCEPT !.pc = "create", !.entry = now,
                          !.prediction = PredictionAt(parkingLots, history,
                                           ls[r].lots[k], now, 30, delta)]]
  /\ UNCHANGED <<nb, mirrorUp, pd, cl, mp, seed, predictionCache, io, webVars,
                 clockVars, dbVars>>

\* create() resolves for lot k: the document is in the collection.
List_Create(r, k) ==
  /\ ls[r].pc = "lots"
  /\ ls[r].each[k].pc = "create"
  /\ predictionCache' = Append(predictionCache,
       [ parkingLotId   |-> ls[r].lots[k],
         predictedSpots |-> ls[r].each[k].prediction.predictedSpots,
         confidence     |-> ls[r].each[k].prediction.confidence,
         predictedFor   |-> ls[r].each[k].entry + PredictedFor,
         createdAt      |-> ls[r].each[k].entry ])
  /\ ls' = [ls EXCEPT ![r].each[k].pc = "done"]
  /\ UNCHANGED <<nb, mirrorUp, pd, cl, mp, seed, io, webVars, clockVars, dbVars>>

\* Promise.all resolves: res.json(lotsWithPredictions)
List_Respond(r) ==
  /\ ls[r].pc = "lots"
  /\ \A k \in 1..Len(ls[r].each) : ls[r].each[k].pc = "done"
  /\ ls' = [ls EXCEPT ![r].pc = "done", ![r].status = 200]
  /\ UNCHANGED <<nb, mirrorUp, pd, cl, mp, seed, predictionCache, io, webVars,
                 clockVars, dbVars>>

\* The store's TTL monitor removes the documents created more than
\* `expires` seconds ago.
Cache_Expire ==
  /\ \E k \in 1..Len(predictionCache) : now - predictionCache[k].createdAt > CacheExpires
  /\ predictionCache' = SelectSeq(predictionCache,
                          LAMBDA doc : now - doc.createdAt <= CacheExpires)
  /\ UNCHANGED <<nb, mirrorUp, pd, cl, mp, seed, ls, io, webVars, clockVars, dbVars>>

\* ------------------------------------------------------------------------
\* mapOverpassToParkingLots (server.js 243-261)
\* ------------------------------------------------------------------------
\* elements.slice(0, 50)
SliceLimit == 50

\* What el.tags?.capacity can be: no tag, or the text of the tag. parseInt
\* reads the longest integer prefix and gives NaN, written << >>, when there
\* is none.
CapacityTags == << "absent", "abc", "0", "-5", "12", "3.7", "12abc" >>
ParseInt(text) ==
  CASE text = "0"     -> <<0>>
    [] text = "-5"    -> <<-5>>
    [] text = "12"    -> <<12>>
    [] text = "3.7"   -> <<3>>
    [] text = "12abc" -> <<12>>
    [] OTHER          -> << >>

\* The values Math.random() gives in one call of the function, as what the
\* code makes of them:
\*   capacity   Math.floor(Math.random() * 200 + 50)        50..249
\*   fraction   0.3 + Math.random() * 0.5, in thousandths    300..799
\*   delta      Math.floor(Math.random() * 20 - 10)         -10..9
\*   confidence 85 + Math.floor(Math.random() * 10)          85..94
RandomDraws ==
  [ capacity : {50, 249}, fraction : {300, 500, 799}, delta : {-10, 9},
    confidence : {85, 94} ]

\* The element lists: n elements numbered from 1, their capacity tags taken
\* in turn from CapacityTags starting after the first `offset` of them.
ElementLengths == {0, 1, 2, SliceLimit - 1, SliceLimit, SliceLimit + 1}
Elements(n, offset) ==
  [k \in 1..n |->
     [id |-> k, capacity |-> CapacityTags[((k + offset) % Len(CapacityTags)) + 1]]]

MapElement(el, idx, draw) ==
  LET capacity  == OrElse(ParseInt(el.capacity), draw.capacity)
      occupied  == (capacity * draw.fraction) \div 1000
      available == Max(0, capacity - occupied)
  IN  [ id |-> el.id, idx |-> idx,
        totalSpots |-> capacity,
        availableSpots |-> available,
        predictedAvailability |-> Max(0, available + draw.delta),
        confidence |-> draw.confidence ]

mapOverpassToParkingLots(elements, draw) ==
  LET sliced == SubSeq(elements, 1, Min(SliceLimit, Len(elements)))
  IN  [k \in 1..Len(sliced) |-> MapElement(sliced[k], k, draw)]

mpIdle == [calls |-> 0, elements |-> << >>, lots |-> << >>]

Mapper_Call ==
  /\ \E n \in ElementLengths, offset \in 0..(Len(CapacityTags) - 1),
        draw \in RandomDraws :
       LET elements == Elements(n, offset)
       IN  mp' = [calls |-> 1, elements |-> elements,
                  lots |-> mapOverpassToParkingLots(elements, draw)]
  /\ UNCHANGED <<nb, mirrorUp, pd, cl, seed, predictionCache, ls, io, webVars, clockVars, dbVars>>

\* ------------------------------------------------------------------------
\* ParkingService, the browser's side of the socket
\* (src/frontend/src/app/services/parking.service.ts 81-110, 216-233)
\*
\* The socket is the socket.io client's: socket.connected is true from the
\* 'connect' event to the 'disconnect' event, a listener added with once()
\* is removed when it is called, the listeners of an event are called in
\* the order they were added, and the manager stops trying after
\* reconnectionAttempts failed reconnections in a row.
\* the lots of a GET answer, as the ParkingLot interface of the service
HeldLot(id, name, availableSpots) ==
  [ id |-> id, name |-> name, totalSpots |-> 10,
    availableSpots |-> availableSpots, lastUpdate |-> 0,
    predictedAvailability |-> availableSpots ]
LotAnswers ==
  { << >>,
    << HeldLot("lotA", "North", 4), HeldLot("lotB", "South", 9) >>,
    << HeldLot("lotB", "South", 9), HeldLot("lotA", "North", 4) >>,
    << HeldLot("lotA", "North", 4), HeldLot("lotA", "Annex", 2) >> }

\* the 'parking-update' events that arrive; no answer holds a lot "lotC"
ParkingUpdates ==
  { [lotId |-> id, availableSpots |-> n, timestamp |-> 30000] :
      id \in {"lotA", "lotB", "lotC"}, n \in {0, 7} }

\* getAllParkingLots: tap(lots => this.parkingLotsSubject.next(lots))
Client_LotsLoaded ==
  /\ \E lots \in LotAnswers : cl' = [cl EXCEPT !.parkingLots = lots]
  /\ UNCHANGED <<nb, mirrorUp, pd, mp, seed, predictionCache, ls, io, webVars, clockVars, dbVars>>

\* lot.id === update.lotId
IsAnyLot(lot, update) == TRUE
IsUpdatedLot(lot, update) == lot.id = update.lotId

updateLocalParkingLot(currentLots, update) ==
  [ i \in 1..Len(currentLots) |->
      IF IsUpdatedLot(currentLots[i], update)
        THEN [currentLots[i] EXCEPT !.availableSpots = update.availableSpots,
                                    !.lastUpdate = update.timestamp]
        ELSE currentLots[i] ]

\* this.socket.on('parking-update', update => { ... })
Client_ParkingUpdate ==
  /\ cl.connected
  /\ Len(cl.updates) < MaxEmits
  /\ \E update \in ParkingUpdates :
       cl' = [cl EXCEPT
                !.updates = Append(@, update),
                !.parkingLots = updateLocalParkingLot(@, update)]
  /\ UNCHANGED <<nb, mirrorUp, pd, mp, seed, predictionCache, ls, io, webVars, clockVars, dbVars>>

\* ------------------------------------------------------------------------
\* The socket.io server: io.on('connection', ...) and io.emit
\* ------------------------------------------------------------------------
Channels == {1, 2}

\* io.sockets[ch] is the server's socket of channel ch: whether it is
\* connected and the lots whose room lot-<id> it has joined.  received and
\* last are history: the 'parking-update' events written to the socket since
\* it connected, and per lot the last request the server processed from it.
NoRequests == [lotId \in LotIds |-> "none"]
socketIdle ==
  [ connected |-> FALSE, rooms |-> {}, received |-> << >>, last |-> NoRequests ]
ioIdle == [ sockets |-> [ch \in Channels |-> socketIdle], emitted |-> << >> ]

\* io.on('connection', (socket) => { ... }): a new socket, in no lot's room
Io_Connection(ch) ==
  /\ ~io.sockets[ch].connected
  /\ io' = [io EXCEPT !.sockets[ch] = [socketIdle EXCEPT !.connected = TRUE]]
  /\ UNCHANGED <<nb, mirrorUp, pd, cl, mp, seed, predictionCache, ls, webVars, clockVars, dbVars>>

\* socket.on('subscribe', (lotId) => { socket.join(`lot-${lotId}`) })
Io_Subscribe(ch, lotId) ==
  /\ io.sockets[ch].connected
  /\ io' = [io EXCEPT !.sockets[ch].rooms = @ \cup {lotId},
                      !.sockets[ch].last[lotId] = "subscribe"]
  /\ UNCHANGED <<nb, mirrorUp, pd, cl, mp, seed, predictionCache, ls, webVars, clockVars, dbVars>>

\* An 'unsubscribe' packet of the client arrives: the connection handler
\* registers listeners for 'subscribe' and 'disconnect' only, so no code runs.
Io_Unsubscribe(ch, lotId) ==
  /\ io.sockets[ch].connected
  /\ io' = [io EXCEPT !.sockets[ch].last[lotId] = "unsubscribe"]
  /\ UNCHANGED <<nb, mirrorUp, pd, cl, mp, seed, predictionCache, ls, webVars, clockVars, dbVars>>

\* socket.on('disconnect', ...) logs; the library has taken the socket out
\* of every room by then.
Io_Disconnect(ch) ==
  /\ io.sockets[ch].connected
  /\ io' = [io EXCEPT !.sockets[ch].connected = FALSE,
                      !.sockets[ch].rooms = {}]
  /\ UNCHANGED <<nb, mirrorUp, pd, cl, mp, seed, predictionCache, ls, webVars, clockVars, dbVars>>

\* the sockets an emit of `event` is written to
RecipientsInRoom(sockets, event) ==
  { ch \in Channels : sockets[ch].connected /\ event.lotId \in sockets[ch].rooms }
Recipients(sockets, event) ==
  { ch \in Channels : sockets[ch].connected }

\* io.emit('parking-update', event), as the job and the update route call it
IoEmit(server, event) ==
  [ sockets |-> [ch \in Channels |->
                   IF ch \in Recipients(server.sockets, event)
                     THEN [server.sockets[ch] EXCEPT !.received = Append(@, event)]
                     ELSE server.sockets[ch]],
    emitted |-> Append(server.emitted, event) ]

Io_Emit(lotId) ==
  /\ Len(io.emitted) < MaxEmits
  /\ io' = IoEmit(io, UpdateEvent(SeededLots[lotId]))
  /\ UNCHANGED <<nb, mirrorUp, pd, cl, mp, seed, predictionCache, ls, webVars, clockVars, dbVars>>

\* ------------------------------------------------------------------------
ReconnectionAttempts == 5
ClientLots == {"lotA", "lotB"}

\* cl.parkingLots is parkingLotsSubject.value, the lots the service holds;
\* cl.updates is what has gone through parkingUpdateSubject, in order.
\* cl.calls, cl.unsubs and cl.connects are history: the subscribeToParkingLot
\* calls made so far (whether the socket was down at the call, and how many
\* times it has connected since), the number of unsubscribeFromParkingLot
\* calls together with the subscribe calls they came after (same lotId, the
\* socket down at both calls and at every moment in between), and the number
\* of connections established.
clIdle ==
  [ connected        |-> FALSE,
    connectionStatus |-> FALSE,
    attempts         |-> 0,
    gaveUp           |-> FALSE,
    onceConnect      |-> << >>,
    sent             |-> << >>,
    calls            |-> << >>,
    unsubs           |-> [count |-> 0, cancelled |-> {}],
    connects         |-> 0,
    parkingLots      |-> << >>,
    updates          |-> << >> ]

Emission(event, lotId, call) == [event |-> event, lotId |-> lotId, call |-> call]

\* this.socket.once('connect', () => { this.socket.emit('subscribe', lotId) })
SubscribeListener(lotId, call) == [lotId |-> lotId, call |-> call]
FireListeners(listeners) ==
  [i \in 1..Len(listeners) |->
     Emission("subscribe", listeners[i].lotId, listeners[i].call)]

\* what is left of the once() listeners after the 'connect' event called them
ListenersKept(listeners) == listeners
ListenersAfterConnect(listeners) == << >>

\* the 'connect' event: the listener of initializeWebSocket, then the once()
\* listeners of the subscribeToParkingLot calls made while the socket was down
Client_Connect ==
  /\ ~cl.connected /\ ~cl.gaveUp
  /\ cl.connects < MaxConnects
  /\ cl' = [cl EXCEPT
       !.connected = TRUE,
       !.attempts = 0,
       !.connectionStatus = TRUE,
       !.sent = @ \o FireListeners(cl.onceConnect),
       !.onceConnect = ListenersAfterConnect(@),
       !.calls = [i \in 1..Len(@) |-> [@[i] EXCEPT !.connects = @ + 1]],
       !.connects = @ + 1]
  /\ UNCHANGED <<nb, mirrorUp, pd, mp, seed, predictionCache, ls, io, webVars, clockVars, dbVars>>

\* the 'connect_error' event: the error is logged, and the manager tries
\* again unless it has used up its reconnection attempts
Client_ConnectError ==
  /\ ~cl.connected /\ ~cl.gaveUp
  /\ cl' = IF cl.attempts >= ReconnectionAttempts
             THEN [cl EXCEPT !.gaveUp = TRUE]
             ELSE [cl EXCEPT !.attempts = @ + 1]
  /\ UNCHANGED <<nb, mirrorUp, pd, mp, seed, predictionCache, ls, io, webVars, clockVars, dbVars>>

\* the 'disconnect' event; the manager schedules its first reconnection
Client_Disconnect ==
  /\ cl.connected
  /\ cl' = [cl EXCEPT !.connected = FALSE, !.connectionStatus = FALSE,
                      !.attempts = 1]
  /\ UNCHANGED <<nb, mirrorUp, pd, mp, seed, predictionCache, ls, io, webVars, clockVars, dbVars>>

subscribeToParkingLot(lotId) ==
  LET call == Len(cl.calls) + 1
      made == [lotId |-> lotId, queued |-> ~cl.connected, connects |-> 0]
  IN  IF cl.connected
        THEN [cl EXCEPT !.sent = Append(@, Emission("subscribe", lotId, call)),
                        !.calls = Append(@, made)]
        ELSE [cl EXCEPT !.onceConnect = Append(@, SubscribeListener(lotId, call)),
                        !.calls = Append(@, made)]

Client_Subscribe ==
  /\ Len(cl.calls) < MaxCalls
  /\ \E lotId \in ClientLots : cl' = subscribeToParkingLot(lotId)
  /\ UNCHANGED <<nb, mirrorUp, pd, mp, seed, predictionCache, ls, io, webVars, clockVars, dbVars>>

\* The subscribe calls an unsubscribeFromParkingLot(lotId) made now comes
\* after with the socket down throughout: the calls for the same lotId that
\* were made with the socket down and have seen no connection since.
OfflineCancels(lotId) ==
  IF cl.connected THEN {}
  ELSE { call \in 1..Len(cl.calls) :
           /\ cl.calls[call].lotId = lotId
           /\ cl.calls[call].queued
           /\ cl.calls[call].connects = 0 }

\* if (this.socket.connected)
UnsubscribeEmitsAlways(connected) == TRUE
UnsubscribeEmits(connected) == connected

unsubscribeFromParkingLot(lotId) ==
  LET made == [count |-> cl.unsubs.count + 1,
               cancelled |-> cl.unsubs.cancelled \cup OfflineCancels(lotId)]
  IN  IF UnsubscribeEmits(cl.connected)
        THEN [cl EXCEPT !.sent = Append(@, Emission("unsubscribe", lotId, 0)),
                        !.unsubs = made]
        ELSE [cl EXCEPT !.unsubs = made]

Client_Unsubscribe ==
  /\ cl.unsubs.count < MaxCalls
  /\ \E lotId \in ClientLots : cl' = unsubscribeFromParkingLot(lotId)
  /\ UNCHANGED <<nb, mirrorUp, pd, mp, seed, predictionCache, ls, io, webVars, clockVars, dbVars>>

MirrorStates ==
  { <<TRUE, TRUE, TRUE>>, <<FALSE, FALSE, TRUE>>, <<FALSE, FALSE, FALSE>> }

apiInit ==
  /\ nb = [r \in NearbyReqs |-> nbIdle]
  /\ mirrorUp = <<TRUE, TRUE, TRUE>>
  /\ pd = pdIdle
  /\ cl = clIdle
  /\ mp = mpIdle
  /\ seed = seedDone
  /\ predictionCache = << >>
  /\ ls = [r \in ListReqs |-> lsIdle]
  /\ io = ioIdle

\* ------------------------------------------------------------------------
\* SpecAreaCache: the area tier on its own
\* ------------------------------------------------------------------------
AreaSteps == {1, AreaTTL}

AreaTick ==
  /\ Tick(AreaSteps)
  /\ op' = NoOp
  /\ UNCHANGED <<co, areaCache, singleIdCache, areaSavedAt, idSavedAt, bi, dbVars, apiVars>>

AreaSave == SaveAreaCache(AreaKeys, AreaSnapshots) /\ UNCHANGED <<co, now, ticks, bi, dbVars, apiVars>>
AreaRead == ReadAreaCache /\ UNCHANGED <<co, now, ticks, bi, dbVars, apiVars>>

InitAreaCache == co = coIdle /\ clockInit /\ cacheInit /\ bi = biIdle /\ dbInit /\ apiInit
NextAreaCache == AreaTick \/ AreaSave \/ AreaRead
SpecAreaCache == InitAreaCache /\ [][NextAreaCache]_vars

\* ------------------------------------------------------------------------
\* SpecIdCache: the entity tier on its own
\* ------------------------------------------------------------------------
IdSteps == {1, IdTTL}

IdTick ==
  /\ Tick(IdSteps)
  /\ op' = NoOp
  /\ UNCHANGED <<co, areaCache, singleIdCache, areaSavedAt, idSavedAt, bi, dbVars, apiVars>>

IdSave == SaveIdCache /\ UNCHANGED <<co, now, ticks, bi, dbVars, apiVars>>
IdRead == ReadIdCache /\ UNCHANGED <<co, now, ticks, bi, dbVars, apiVars>>

InitIdCache == co = coIdle /\ clockInit /\ cacheInit /\ bi = biIdle /\ dbInit /\ apiInit
NextIdCache == IdTick \/ IdSave \/ IdRead
SpecIdCache == InitIdCache /\ [][NextIdCache]_vars

\* ------------------------------------------------------------------------
\* SpecById: lookups by id, while time passes and the area tier is written
\* ------------------------------------------------------------------------
ByIdTick ==
  /\ Tick(ByIdSteps)
  /\ UNCHANGED <<co, cacheVars, bi, dbVars, apiVars>>

ByIdAreaWrite == SaveAreaCache({ByIdAreaKey}, ByIdSnapshots) /\ UNCHANGED <<co, now, ticks, bi, dbVars, apiVars>>
ByIdPost == callOverpass_Post(ByIdOutcomes) /\ UNCHANGED <<clockVars, cacheVars, bi, dbVars, apiVars>>
ByIdBackoff == callOverpass_Backoff /\ UNCHANGED <<clockVars, cacheVars, bi, dbVars, apiVars>>

InitById == co = coIdle /\ clockInit /\ cacheInit /\ bi = biIdle /\ dbInit /\ apiInit
NextById ==
  \/ ByIdTick
  \/ ByIdAreaWrite
  \/ ById_Call
  \/ ByIdPost
  \/ ByIdBackoff
  \/ ById_Resume
SpecById == InitById /\ [][NextById]_vars

\* ------------------------------------------------------------------------
\* SpecStore: the background job and update requests on the record store
\* ------------------------------------------------------------------------
\* One cycle at a time here: a period that fires during a cycle is left to
\* the specification of overlapping cycles.
StoreSlots == {1}

InitStore == co = coIdle /\ clockInit /\ cacheInit /\ bi = biIdle /\ dbInit /\ apiInit
NextStore ==
  \/ \E c \in StoreSlots : Job_TimerFires(c)
  \/ \E c \in StoreSlots : Job_Find(c)
  \/ \E c \in StoreSlots : Job_Save(c)
  \/ \E c \in StoreSlots : Job_SaveFails(c)
  \/ \E c \in StoreSlots : Job_RecFind(c)
  \/ \E c \in StoreSlots : Job_RecSave(c)
  \/ Put_Update
  \/ Put_RecFind
  \/ Put_RecSave
SpecStore == InitStore /\ [][NextStore]_vars

\* ------------------------------------------------------------------------
\* SpecSeed: the server starts on an empty store (on a filled one
\* seedDatabase does nothing, and what follows is SpecStore). The store
\* answers seedDatabase before the first period of the timer elapses: the
\* cycles and the update requests come after it.
\* ------------------------------------------------------------------------
InitSeed ==
  /\ co = coIdle /\ clockInit /\ cacheInit /\ bi = biIdle
  /\ parkingLots = << >>
  /\ history = << >>
  /\ job = [c \in CycleSlots |-> jobIdle]
  /\ put = putIdle
  /\ started = [cycles |-> 0, puts |-> 0]
  /\ nb = [r \in NearbyReqs |-> nbIdle]
  /\ mirrorUp = <<TRUE, TRUE, TRUE>>
  /\ pd = pdIdle /\ cl = clIdle /\ mp = mpIdle
  /\ seed = seedStart
  /\ predictionCache = << >>
  /\ ls = [r \in ListReqs |-> lsIdle]
  /\ io = ioIdle
NextSeed ==
  \/ Seed_Count \/ Seed_Insert \/ Seed_Find \/ Seed_Create
  \/ seed.pc = "done" /\ NextStore
SpecSeed == InitSeed /\ [][NextSeed]_vars

\* ------------------------------------------------------------------------
\* SpecOverlap: the background job alone, with periods that can elapse
\* while a cycle is suspended at one of its awaits
\* ------------------------------------------------------------------------
NextOverlap ==
  \/ \E c \in CycleSlots : Job_TimerFires(c)
  \/ \E c \in CycleSlots : Job_Find(c)
  \/ \E c \in CycleSlots : Job_Save(c)
  \/ \E c \in CycleSlots : Job_SaveFails(c)
  \/ \E c \in CycleSlots : Job_RecFind(c)
  \/ \E c \in CycleSlots : Job_RecSave(c)
SpecOverlap == InitStore /\ [][NextOverlap]_vars

\* ------------------------------------------------------------------------
\* SpecOverpass: callOverpass on its own, called again once it has ended
\* ------------------------------------------------------------------------
OverpassCall ==
  /\ co.pc \in {"idle", "returned", "thrown"}
  /\ \E a \in 0..MaxAttempts : co' = coEnter("test", a)
  /\ UNCHANGED <<clockVars, cacheVars, bi, dbVars, apiVars>>

OverpassPost == callOverpass_Post(Outcomes) /\ UNCHANGED <<clockVars, cacheVars, bi, dbVars, apiVars>>
OverpassBackoff == callOverpass_Backoff /\ UNCHANGED <<clockVars, cacheVars, bi, dbVars, apiVars>>

InitOverpass == co = coIdle /\ clockInit /\ cacheInit /\ bi = biIdle /\ dbInit /\ apiInit

NextOverpass ==
  \/ OverpassCall
  \/ OverpassPost
  \/ OverpassBackoff

SpecOverpass == InitOverpass /\ [][NextOverpass]_vars


\* ------------------------------------------------------------------------
\* SpecNearby: listings of real lots, while time passes
\* ------------------------------------------------------------------------
NearbySteps == {1, AreaTTL}

\* The record store as the listing can find it: seeded, or still empty.
NearbyStores == { SeededLots, << >> }

NearbyTick == Tick(NearbySteps) /\ UNCHANGED <<co, cacheVars, bi, dbVars, apiVars>>

InitNearby ==
  /\ co = coIdle /\ clockInit /\ cacheInit /\ bi = biIdle
  /\ parkingLots \in NearbyStores
  /\ history = << >>
  /\ job = [c \in CycleSlots |-> jobIdle]
  /\ put = putIdle
  /\ started = [cycles |-> 0, puts |-> 0]
  /\ nb = [r \in NearbyReqs |-> nbIdle]
  /\ mirrorUp \in MirrorStates
  /\ pd = pdIdle
  /\ cl = clIdle
  /\ mp = mpIdle
  /\ seed = seedDone
  /\ predictionCache = << >>
  /\ ls = [r \in ListReqs |-> lsIdle]
  /\ io = ioIdle
NextNearby ==
  \/ NearbyTick
  \/ \E r \in NearbyReqs : Nearby_Request(r)
  \/ \E r \in NearbyReqs : Nearby_Fallback(r)
SpecNearby == InitNearby /\ [][NextNearby]_vars

\* ------------------------------------------------------------------------
\* SpecPredict: one prediction, for any stored lot and any history
\* ------------------------------------------------------------------------
Minute == 60 * 1000
Hour == 60 * Minute
Week == 7 * 24 * Hour

\* totalSpots and availableSpots of the lot asked about. POST
\* /api/parking-lots stores the body it is sent and PUT any availableSpots,
\* so a lot of no spots and counts outside [0, totalSpots] can be stored.
PredictLotShapes == { <<0, 0>>, <<4, -6>>, <<4, -5>>, <<4, 3>>, <<4, 5>>, <<20, 3>> }

\* The availableSpots of the records, and where a record is: at the hour
\* asked about by default, an hour later, or about another lot.
HistValues == {-1, 3, 6}
HistPlaces == {"sameHour", "nextHour", "otherLot"}

\* Record k of the history: made in minute k of the first hour or of the
\* one after it, a week before the prediction is asked for.
HistRecordAt(k, place, value) ==
  HistoricalRecord(IF place = "otherLot" THEN "lotB" ELSE "lotA",
                   k * Minute + (IF place = "nextHour" THEN Hour ELSE 0),
                   value)

PredictHistories ==
  UNION { { [k \in 1..n |-> HistRecordAt(k, places[k], values[k])] :
              places \in [1..n -> HistPlaces], values \in [1..n -> HistValues] } :
          n \in 0..MaxHist }

\* Histories of six records of the lot, of the two hours in turn.
SixRecordHistories ==
  { [k \in 1..6 |-> HistRecordAt(k, IF k % 2 = 1 THEN "sameHour" ELSE "nextHour", values[k])] :
      values \in [1..6 -> {3, 6}] }

\* A lot of 150 spots, 45 of them available, with six records: four of the
\* first hour (52, 52, 52, 44) and after them two of the next hour (45, 55),
\* which is the hour asked about 90 minutes ahead.
ScenarioShape == <<150, 45>>
ScenarioHistory ==
  [k \in 1..6 |->
     HistRecordAt(k, <<"sameHour", "sameHour", "sameHour", "sameHour", "nextHour", "nextHour">>[k],
                  <<52, 52, 52, 44, 45, 55>>[k])]

PredictInputs ==
  (PredictLotShapes \X (PredictHistories \cup SixRecordHistories))
    \cup {<<ScenarioShape, ScenarioHistory>>}

InitPredict ==
  /\ co = coIdle /\ cacheInit /\ bi = biIdle
  /\ now = Week /\ ticks = 0
  /\ \E input \in PredictInputs :
       /\ parkingLots = [SeededLots EXCEPT
                           !["lotA"] = LotDoc("lotA", input[1][1], input[1][2], 0)]
       /\ history = input[2]
  /\ job = [c \in CycleSlots |-> jobIdle]
  /\ put = putIdle
  /\ started = [cycles |-> 0, puts |-> 0]
  /\ apiInit
NextPredict == Predict_Call \/ Predict_FindLot \/ Predict_FindPattern \/ Predict_FindRecent
SpecPredict == InitPredict /\ [][NextPredict]_vars

\* ------------------------------------------------------------------------
\* SpecListing: listings, one after or during the other, while time passes
\* ------------------------------------------------------------------------
ListSteps == {CacheExpires}
ListTick == Tick(ListSteps) /\ UNCHANGED <<co, cacheVars, bi, dbVars, apiVars>>
NextListing ==
  \/ ListTick
  \/ Cache_Expire
  \/ \E r \in ListReqs : List_Request(r)
  \/ \E r \in ListReqs : List_Find(r)
  \/ \E r \in ListReqs, k \in 1..Len(LotOrder) : List_FindOne(r, k)
  \/ \E r \in ListReqs, k \in 1..Len(LotOrder) : List_Predict(r, k)
  \/ \E r \in ListReqs, k \in 1..Len(LotOrder) : List_Create(r, k)
  \/ \E r \in ListReqs : List_Respond(r)
SpecListing == InitStore /\ [][NextListing]_vars

\* ------------------------------------------------------------------------
\* SpecMapper: mapOverpassToParkingLots called again and again
\* ------------------------------------------------------------------------
NextMapper == Mapper_Call
SpecMapper == InitStore /\ [][NextMapper]_vars

\* ------------------------------------------------------------------------
\* SpecClient: the browser's ParkingService and its socket
\* ------------------------------------------------------------------------
NextClient ==
  \/ Client_Connect
  \/ Client_ConnectError
  \/ Client_Disconnect
  \/ Client_Subscribe
  \/ Client_Unsubscribe
SpecClient == InitStore /\ [][NextClient]_vars

\* SpecClientLots: the service loads lot lists and receives 'parking-update'
\* events while its socket connects and drops.
NextClientLots ==
  \/ Client_Connect
  \/ Client_ConnectError
  \/ Client_Disconnect
  \/ Client_LotsLoaded
  \/ Client_ParkingUpdate

SpecClientLots == InitStore /\ [][NextClientLots]_vars

\* SpecBroadcast: two channels connect to the socket.io server, subscribe,
\* unsubscribe and disconnect, while 'parking-update' events are emitted.
NextBroadcast ==
  \/ \E ch \in Channels : Io_Connection(ch)
  \/ \E ch \in Channels, lotId \in LotIds : Io_Subscribe(ch, lotId)
  \/ \E ch \in Channels, lotId \in LotIds : Io_Unsubscribe(ch, lotId)
  \/ \E ch \in Channels : Io_Disconnect(ch)
  \/ \E lotId \in LotIds : Io_Emit(lotId)

SpecBroadcast == InitStore /\ [][NextBroadcast]_vars

\* ------------------------------------------------------------------------
\* Claims about callOverpass (checked under SpecOverpass)
\* ------------------------------------------------------------------------
NumMirrors == Len(OVERPASS_MIRRORS)

\* C2: with N mirrors and attempts = A, attempt i (i = 0, 1, ...) contacts
\* mirror i mod N, starting at mirror 0; no more than A attempts are ever
\* made; and with N > 1 no two consecutive attempts go to the same mirror.
C2_MirrorRotation ==
  /\ Len(co.urls) <= co.attempts
  /\ \A k \in 1..Len(co.urls) :
       co.urls[k] = OVERPASS_MIRRORS[((k - 1) % NumMirrors) + 1]
  /\ NumMirrors > 1 =>
       \A k \in 1..(Len(co.urls) - 1) : co.urls[k] # co.urls[k + 1]

\* A call with more attempts than mirrors has failed everywhere: the fourth
\* attempt wrapped round to the first mirror.
C2_Witness ==
  /\ co.pc = "thrown"
  /\ co.attempts = NumMirrors + 1
  /\ Len(co.urls) = NumMirrors + 1
  /\ co.urls[NumMirrors + 1] = OVERPASS_MIRRORS[1]

\* C3: the delay that elapses between failed attempt i and attempt i+1 is
\* exactly 500 * 2^i, for every i in 0..A-2; exactly one delay elapses
\* between two attempts.
C3_BackoffDelays ==
  /\ Len(co.delays) <= Len(co.urls)
  /\ \A i \in 0..(co.attempts - 2) :
       Len(co.urls) >= i + 2 =>
         /\ Len(co.delays) >= i + 1
         /\ co.delays[i + 1] = 500 * 2^i
  /\ co.pc = "post" => Len(co.delays) = Len(co.urls)

\* Four attempts were made, with 500, 1000 and 2000 between them.
C3_Witness ==
  /\ co.attempts = 4
  /\ Len(co.urls) = 4
  /\ co.delays[1] = 500 /\ co.delays[2] = 1000 /\ co.delays[3] = 2000

AllFailed(outs) == \A k \in 1..Len(outs) : outs[k] # "2xx"

\* C4: callOverpass returns the data of the first attempt answered 2xx and
\* makes no attempt after it; when all A attempts fail it throws, and what
\* it throws is the error of the last attempt (attempt A-1).
C4_ResultOrLastError ==
  /\ \A k \in 1..(Len(co.outcomes) - 1) : co.outcomes[k] # "2xx"
  /\ co.pc = "returned" =>
       LET n == Len(co.outcomes)
       IN  /\ n >= 1 /\ co.outcomes[n] = "2xx"
           /\ co.ret = DataOf(co.urls[n], n - 1)
  /\ (Len(co.outcomes) >= 1 /\ co.outcomes[Len(co.outcomes)] = "2xx")
       => co.pc = "returned"
  /\ (co.pc = "thrown" /\ co.attempts >= 1) =>
       /\ Len(co.outcomes) = co.attempts
       /\ AllFailed(co.outcomes)
       /\ co.lastErr = ErrOf(co.outcomes[co.attempts], co.attempts - 1)
  /\ (co.attempts >= 1 /\ Len(co.outcomes) = co.attempts /\ AllFailed(co.outcomes))
       => co.pc \in {"backoff", "thrown"}

\* Three attempts failed in different ways and the call has thrown.
C4_Witness ==
  /\ co.pc = "thrown"
  /\ co.attempts = 3
  /\ co.outcomes = << "non2xx", "transport", "non2xx" >>
  /\ co.lastErr = ErrOf("non2xx", 2)


\* ------------------------------------------------------------------------
\* Claims about the cache tiers (SpecAreaCache, SpecIdCache)
\* ------------------------------------------------------------------------
\* C5: readAreaCache(key) misses when no entry is resident, when the
\* resident entry has another key, or when more than AreaTTL (10 minutes)
\* has passed since saveAreaCache was last called with that key; in every
\* other case it returns the resident snapshot.
C5_AreaRead ==
  op.name = "readAreaCache" =>
    LET k == op.key
        missExpected ==
          \/ areaCache.key = NullKey
          \/ areaCache.key # k
          \/ now - areaSavedAt[k] > AreaTTL
    IN  /\ op.ret.hit <=> ~missExpected
        /\ op.ret.hit => op.ret.val = areaCache

\* A read exactly AreaTTL after the write still hits a snapshot that was
\* written over an earlier one.
C5_Witness ==
  /\ op.name = "readAreaCache"
  /\ op.ret.hit
  /\ areaSavedAt[op.key] > 0
  /\ now - areaSavedAt[op.key] = AreaTTL

\* C6: readIdCache(id) misses, and the entry is gone from the map, once more
\* than IdTTL (1 hour) has passed since saveIdCache was last called for the
\* id; a later saveIdCache restarts the hour, so a read returns an entry
\* exactly when the id's last write is at most IdTTL old.
C6_IdRead ==
  op.name = "readIdCache" =>
    LET id == op.id
        fresh == idSavedAt[id] >= 0 /\ now - idSavedAt[id] <= IdTTL
    IN  /\ op.ret.hit <=> fresh
        /\ ~fresh => id \notin DOMAIN singleIdCache
        /\ op.ret.hit =>
             /\ id \in DOMAIN singleIdCache
             /\ op.ret.val = singleIdCache[id].lot

\* An entry written, expired on a read, and evicted by that read.
C6_Witness ==
  /\ op.name = "readIdCache"
  /\ ~op.ret.hit
  /\ idSavedAt[op.id] >= 0
  /\ now - idSavedAt[op.id] = IdTTL + 1
  /\ op.id \notin DOMAIN singleIdCache


\* ------------------------------------------------------------------------
\* Claims about fetchOpenStreetMapParkingById (SpecById)
\* ------------------------------------------------------------------------
\* C9: the lookup by id goes to the entity tier first, then to the area
\* tier's index, then upstream: it is answered by the entity tier when that
\* holds a live entry, else by the area index when that has the id, else by
\* upstream; upstream is contacted only when both tiers missed; and whichever
\* source answered, the entity tier then holds the returned lot under the id.
C9_ByIdOrder ==
  /\ bi.pc = "returned" =>
       /\ bi.source = "id-cache" <=> bi.pre.idFresh
       /\ bi.source = "area-cache" <=> (~bi.pre.idFresh /\ bi.pre.inIndex)
       /\ bi.source = "overpass" <=> (~bi.pre.idFresh /\ ~bi.pre.inIndex)
       /\ bi.id \in DOMAIN singleIdCache
       /\ singleIdCache[bi.id].lot = bi.lot
  /\ bi.pc # "idle" =>
       (co.pc # "idle" <=> (~bi.pre.idFresh /\ ~bi.pre.inIndex))
  /\ bi.pc \in {"upstream", "thrown"} => (~bi.pre.idFresh /\ ~bi.pre.inIndex)

\* A lookup whose entity-tier entry had expired was answered from the area
\* index, with no upstream call, and the entry written again.
C9_Witness ==
  /\ bi.pc = "returned"
  /\ bi.source = "area-cache"
  /\ bi.osmId = "2"
  /\ co.pc = "idle"
  /\ now > IdTTL
  /\ idSavedAt["osm-2"] = now
  /\ singleIdCache["osm-2"].lot = bi.lot

\* ------------------------------------------------------------------------
\* Claims about the record store (SpecStore)
\* ------------------------------------------------------------------------
\* C1: in every reachable state of the record store every stored lot has
\* 0 <= availableSpots <= totalSpots, after every cycle of the background
\* job and after every PUT /api/parking-lots/:id, whatever availableSpots
\* the caller sent.
C1_AvailableWithinTotal ==
  \A id \in DOMAIN parkingLots :
    /\ 0 <= parkingLots[id].availableSpots
    /\ parkingLots[id].availableSpots <= parkingLots[id].totalSpots

\* ------------------------------------------------------------------------
\* Claims about GET /api/parking-lots/real (SpecNearby)
\* ------------------------------------------------------------------------
SameArea(r1, r2) ==
  /\ nb[r1].lat = nb[r2].lat
  /\ nb[r1].lng = nb[r2].lng
  /\ nb[r1].radius = nb[r2].radius

SomeMirrorUp == \E m \in 1..Len(mirrorUp) : mirrorUp[m]

\* C7: of two requests with the same lat, lng and radius, the second made
\* after the first was answered and within AreaTTL of it, at most one goes
\* upstream: the second is answered from the area cache. (Stated for the
\* case that a mirror would answer, so that the first has a result to keep.)
C7_SecondFromAreaCache ==
  \A r1, r2 \in NearbyReqs :
    ( /\ nb[r1].pc = "done" /\ nb[r2].pc = "done"
      /\ r1 \in nb[r2].after
      /\ SameArea(r1, r2)
      /\ nb[r2].at - nb[r1].at <= AreaTTL
      /\ SomeMirrorUp )
    => /\ Len(nb[r1].posts) + Len(nb[r2].posts) <= 1
       /\ nb[r2].source = "area-cache"

\* C8: a request that misses the area cache while some mirror would answer
\* is answered from upstream, and by the time it is answered the result has
\* been written into the area cache; when only the third mirror would
\* answer, exactly the two delays 500 and 1000 are waited and the third
\* mirror is the one that serves.
C8_MissFillsAreaCache ==
  \A r \in NearbyReqs :
    (nb[r].pc = "done" /\ SomeMirrorUp)
    => /\ nb[r].source = "overpass"
       /\ areaCache.key # NullKey
       /\ areaCache.ts >= nb[r].at
       /\ mirrorUp = <<FALSE, FALSE, TRUE>> =>
            /\ nb[r].delays = <<500, 1000>>
            /\ nb[r].posts = OVERPASS_MIRRORS

\* ------------------------------------------------------------------------
\* Claims about predictAvailability (SpecPredict)
\* ------------------------------------------------------------------------
\* C10: for a stored lot with at least one record matching the target day
\* and hour, predictAvailability returns predictedSpots within
\* [0, totalSpots] and a confidence within [70, 95], whatever the lot's
\* availableSpots and the values of the records.
C10_PredictionWithinBounds ==
  (pd.pc = "returned" /\ Len(pd.matched) >= 1) =>
    /\ 0 <= pd.result.predictedSpots
    /\ pd.result.predictedSpots <= pd.lot.totalSpots
    /\ ~pd.result.confidence.isNaN
    /\ 70 <= pd.result.confidence.value
    /\ pd.result.confidence.value <= 95

Abs(x) == IF x < 0 THEN -x ELSE x

NoDataReturned == pd.pc = "returned" /\ Len(pd.matched) = 0

C12_NoDataWithinTotal ==
  (NoDataReturned /\ 0 <= pd.lot.availableSpots
                  /\ pd.lot.availableSpots <= pd.lot.totalSpots) =>
    /\ 0 <= pd.result.predictedSpots
    /\ pd.result.predictedSpots <= pd.lot.totalSpots

\* The records of the lot asked about as the store holds them: those of the
\* target day and hour, the three latest and the three before them.
RecordsOfLot == {i \in 1..Len(history) : history[i].parkingLotId = pd.id}
MatchingRecords ==
  {i \in RecordsOfLot : /\ history[i].dayOfWeek = pd.targetDay
                        /\ history[i].hour = pd.targetHour}
LaterRecords(i) ==
  Cardinality({j \in RecordsOfLot : history[j].timestamp > history[i].timestamp})
LatestThree == {i \in RecordsOfLot : LaterRecords(i) < 3}
PriorThree == {i \in RecordsOfLot : LaterRecords(i) >= 3 /\ LaterRecords(i) < 6}

RECURSIVE SumAvailable(_)
SumAvailable(indices) ==
  IF indices = {} THEN 0
  ELSE LET i == CHOOSE i \in indices : TRUE
       IN  history[i].availableSpots + SumAvailable(indices \ {i})

RECURSIVE SumSquares(_)
SumSquares(indices) ==
  IF indices = {} THEN 0
  ELSE LET i == CHOOSE i \in indices : TRUE
       IN  history[i].availableSpots * history[i].availableSpots
             + SumSquares(indices \ {i})

\* p is x rounded to the nearest integer (halves upwards), for
\* x = 0.6 * mean(matched) + 0.3 * available + 0.1 * (mean(latest 3) - mean(prior 3))
\*   = xNum / (30 * n), that is p - 1/2 <= x < p + 1/2
IsRoundedPrediction(p) ==
  LET n == Cardinality(MatchingRecords)
      xNum == 18 * SumAvailable(MatchingRecords) + 9 * pd.lot.availableSpots * n
                + (SumAvailable(LatestThree) - SumAvailable(PriorThree)) * n
  IN  /\ 30 * n * (2 * p - 1) <= 2 * xNum
      /\ 2 * xNum < 30 * n * (2 * p + 1)

\* n * n times the variance of the matched values, and (n * totalSpots)^2
MatchedVarN2 ==
  Cardinality(MatchingRecords) * SumSquares(MatchingRecords)
    - SumAvailable(MatchingRecords) * SumAvailable(MatchingRecords)
MatchedScale2 ==
  Cardinality(MatchingRecords) * Cardinality(MatchingRecords)
    * pd.lot.totalSpots * pd.lot.totalSpots

\* With c = 100 - 100 * stdDev(matched) / totalSpots and totalSpots > 0:
\* c >= b2 / 2 and c <= b2 / 2, for b2 <= 200
RawConfidenceGeq(b2) == 40000 * MatchedVarN2 <= (200 - b2) * (200 - b2) * MatchedScale2
RawConfidenceLeq(b2) == 40000 * MatchedVarN2 >= (200 - b2) * (200 - b2) * MatchedScale2

\* For totalSpots = 0 the quotient is read as floating point reads it:
\* Infinity for a positive stdDev (the clamp is 70), NaN for stdDev 0.
ConfidenceOfNoSpots(conf) ==
  IF MatchedVarN2 = 0 THEN conf.isNaN ELSE ~conf.isNaN /\ conf.value = 70

\* conf is clamp(c, 70, 95) rounded to the nearest integer
IsRoundedConfidence(conf) ==
  IF pd.lot.totalSpots = 0 THEN ConfidenceOfNoSpots(conf)
  ELSE /\ ~conf.isNaN
       /\ conf.value \in 70..95
       /\ conf.value > 70 => RawConfidenceGeq(2 * conf.value - 1)
       /\ conf.value < 95 => ~RawConfidenceGeq(2 * conf.value + 1)

\* conf is clamp(c, 70, 95) itself
IsClampedConfidence(conf) ==
  IF pd.lot.totalSpots = 0 THEN ConfidenceOfNoSpots(conf)
  ELSE /\ ~conf.isNaN
       /\ \/ conf.value = 95 /\ RawConfidenceGeq(190)
          \/ conf.value = 70 /\ RawConfidenceLeq(140)
          \/ /\ conf.value \in 71..94
             /\ RawConfidenceGeq(2 * conf.value)
             /\ RawConfidenceLeq(2 * conf.value)

WithRecordsReturned ==
  /\ pd.pc = "returned"
  /\ Cardinality(MatchingRecords) >= 1
  /\ Cardinality(RecordsOfLot) >= 6

\* total 150, available 45, matched mean 50 with stdDev 5, latest three of
\* mean 48 and prior three of mean 52
IsScenario ==
  /\ pd.lot.totalSpots = 150 /\ pd.lot.availableSpots = 45
  /\ SumAvailable(MatchingRecords) = 50 * Cardinality(MatchingRecords)
  /\ MatchedVarN2 = 25 * Cardinality(MatchingRecords) * Cardinality(MatchingRecords)
  /\ SumAvailable(LatestThree) = 3 * 48
  /\ SumAvailable(PriorThree) = 3 * 52

C14_UnknownLotNotFound ==
  (pd.pc \in {"returned", "thrown"} /\ pd.id \notin DOMAIN parkingLots) =>
    /\ pd.pc = "thrown"
    /\ pd.error = "Parking lot not found"
    /\ pd.result = NoResult
    /\ pd.status = 404

\* C15: a prediction changes no persisted fact: every step of
\* predictAvailability leaves every stored lot (its availableSpots,
\* totalSpots and lastUpdate) and every HistoricalRecord as it was.
C15_PredictKeepsFacts ==
  [][parkingLots' = parkingLots /\ history' = history]_vars

\* A prediction was made from records, and the lot and the records are
\* those the store had before.
C15_Witness ==
  /\ pd.pc = "returned"
  /\ Len(pd.matched) >= 2
  /\ Len(history) >= 2
  /\ parkingLots[pd.id] = pd.lot
  /\ pd.result.predictedSpots # pd.lot.availableSpots

\* ------------------------------------------------------------------------
\* Claims about the background job (SpecStore)
\* ------------------------------------------------------------------------
\* C16: a failure while one lot is updated does not stop the cycle: when
\* the cycle is over every lot it found has been changed, saved and
\* announced by an event.
C16_FailureIsolated ==
  \A c \in CycleSlots :
    (job[c].pc = "idle" /\ Len(job[c].docs) > 0) =>
      /\ Len(job[c].saved) = Len(job[c].docs)
      /\ Len(job[c].emitted) = Len(job[c].docs)

C18_NoOverlap ==
  \A c1, c2 \in CycleSlots :
    (job[c1].pc # "idle" /\ job[c2].pc # "idle") => c1 = c2

\* The 'subscribe' emissions made for the call-th subscribeToParkingLot call.
SubscribeEmissions(call) ==
  { k \in 1..Len(cl.sent) :
      cl.sent[k].event = "subscribe" /\ cl.sent[k].call = call }
QueuedFor(call) ==
  { k \in 1..Len(cl.onceConnect) : cl.onceConnect[k].call = call }

\* C19: a subscribeToParkingLot(lotId) call made while the socket is not
\* connected is queued, and once the connection is established it has led
\* to exactly one 'subscribe' emission, carrying its lotId: none before the
\* connection, one after it, and still one after every later reconnection.
C19_QueuedSubscribeOnce ==
  \A call \in 1..Len(cl.calls) :
    cl.calls[call].queued =>
      IF cl.calls[call].connects = 0
        THEN /\ Cardinality(QueuedFor(call)) = 1
             /\ SubscribeEmissions(call) = {}
        ELSE /\ Cardinality(SubscribeEmissions(call)) = 1
             /\ \A k \in SubscribeEmissions(call) :
                  cl.sent[k].lotId = cl.calls[call].lotId

\* A call made while the socket was down has seen the socket connect, drop
\* and connect again, and one 'subscribe' was emitted for it.
C19_Witness ==
  \E call \in 1..Len(cl.calls) :
    /\ cl.calls[call].queued
    /\ cl.calls[call].connects >= 2
    /\ cl.connected
    /\ Cardinality(SubscribeEmissions(call)) = 1

\* C20: unsubscribeFromParkingLot(lotId) called while the socket is not
\* connected emits nothing and changes nothing: the emissions, the queued
\* listeners, the socket and the connection status are what they were.
C20_OfflineUnsubscribeNoOp ==
  [][ (cl'.unsubs # cl.unsubs /\ ~cl.connected)
        => [cl' EXCEPT !.unsubs = cl.unsubs] = cl ]_vars

\* unsubscribeFromParkingLot was called while the socket was down and a
\* subscription was waiting for the connection.
C20_Witness ==
  /\ cl.unsubs.count >= 1
  /\ cl.connects = 0
  /\ Len(cl.onceConnect) >= 1
  /\ cl.sent = << >>

\* C21: when the fetch of GET /api/parking-lots/real fails, the answer is
\* 200 with the stored lots (ten at most), each with the property names of
\* a mapped lot; the answer is 503 exactly when the fetch failed and the
\* store gave no lot, being empty or its find() rejecting.
C21_FallbackOrUnavailable ==
  \A r \in NearbyReqs :
    LET found == Limit(StoredIds(parkingLots), 10)
        none  == nb[r].findRejected \/ Len(found) = 0
    IN  nb[r].pc = "done" =>
          /\ (nb[r].threw /\ ~none) =>
               /\ nb[r].status = 200
               /\ nb[r].body = found
               /\ nb[r].fields = MappedLotFields
          /\ nb[r].status = 503 <=> (nb[r].threw /\ none)

\* One request was answered from the store after its fetch failed, and the
\* other was answered 503 because find() rejected.
C21_Witness ==
  /\ nb[1].pc = "done" /\ nb[1].threw /\ nb[1].status = 200
  /\ Len(nb[1].body) = 2
  /\ nb[2].pc = "done" /\ nb[2].threw /\ nb[2].findRejected
  /\ nb[2].status = 503

\* C22: mapOverpassToParkingLots returns at most 50 lots, and each has an
\* integer totalSpots of at least 1 and 0 <= availableSpots <= totalSpots,
\* whatever the capacity tags of the elements are.
C22_MappedLotsWellFormed ==
  /\ Len(mp.lots) <= SliceLimit
  /\ \A k \in 1..Len(mp.lots) :
       /\ mp.lots[k].totalSpots \in Nat \ {0}
       /\ 0 <= mp.lots[k].availableSpots
       /\ mp.lots[k].availableSpots <= mp.lots[k].totalSpots

\* The lots that can be reached through the area tier: those of the
\* resident list and those its index maps to.
AreaReachable(cache) ==
  { cache.lots[k] : k \in 1..Len(cache.lots) }
    \cup { cache.indexById[id] : id \in DOMAIN cache.indexById }
LotsOf(lots) == { lots[k] : k \in 1..Len(lots) }

\* C23: every saveAreaCache(key, lots) leaves exactly that snapshot
\* resident: the key and the list are the ones given, the index has exactly
\* the ids of the list, each mapped to a lot of the list with that id, and
\* no lot of an earlier snapshot can be reached through the area tier; and
\* nothing but saveAreaCache changes what is resident.
C23_LastSnapshotOnly ==
  [][ IF op'.name = "saveAreaCache"
        THEN /\ areaCache'.key = op'.key
             /\ areaCache'.lots = op'.lots
             /\ DOMAIN areaCache'.indexById = { lot.id : lot \in LotsOf(op'.lots) }
             /\ \A id \in DOMAIN areaCache'.indexById :
                  /\ areaCache'.indexById[id] \in LotsOf(op'.lots)
                  /\ areaCache'.indexById[id].id = id
             /\ AreaReachable(areaCache') = LotsOf(op'.lots)
        ELSE areaCache' = areaCache ]_vars

\* A snapshot of two lots with one id was written under one key after
\* another snapshot had been written under the other key.
C23_Witness ==
  /\ op.name = "saveAreaCache"
  /\ areaCache.lots = << Lot("osm-2", 3), Lot("osm-2", 4) >>
  /\ DOMAIN areaCache.indexById = {"osm-2"}
  /\ \E other \in AreaKeys \ {areaCache.key} :
       areaSavedAt[other] >= 0 /\ areaSavedAt[other] < areaCache.ts

\* The steps of recordCurrentState that add a record, and the records kept.
RecordingStep == (\E c \in StoreSlots : Job_RecSave(c)) \/ Put_RecSave
RecordsKept ==
  /\ Len(history') >= Len(history)
  /\ SubSeq(history', 1, Len(history)) = history

\* C24 as stated: the records are only ever added to, a record once made
\* keeps its lot, timestamp and available count, and every addition is made
\* by recordCurrentState, called from the job or from an update request.
C24_OnlyRecordingAdds ==
  [][ RecordsKept /\ (history' # history => RecordingStep) ]_vars

\* C24, amended: the records are only ever added to, a record once made
\* keeps its lot, timestamp and available count, and every addition is made
\* by recordCurrentState (called from the job or from an update request) or
\* by seedDatabase when the server starts on an empty store.
C24_OnlyRecordingOrSeedingAdds ==
  [][ RecordsKept /\ (history' # history => (RecordingStep \/ Seed_Create)) ]_vars

\* Records made by seedDatabase are followed by one made by
\* recordCurrentState for an update request.
C24_Witness ==
  /\ seed.pc = "done"
  /\ seed.created = SeedRecords * Len(LotOrder)
  /\ Len(history) > seed.created
  /\ put.pc = "done" /\ put.status = 200
  /\ history[Len(history)].parkingLotId = put.id

\* C25: a forecast memoized for a lot is not computed again, and no second
\* PredictionCache document is created for the lot, while the first is
\* unexpired: two documents of one lot in the collection were created more
\* than 5 minutes apart, also when two listings run at the same time.
C25_OneEntryPerLot ==
  \A i, j \in 1..Len(predictionCache) :
    (i < j /\ predictionCache[i].parkingLotId = predictionCache[j].parkingLotId)
      => predictionCache[j].createdAt > predictionCache[i].createdAt + CacheExpires

\* C26: the trend of predictAvailability is the mean of the latest three
\* recent records minus the mean of the three before them, each mean taken
\* over the records its group has, and 0 when the second group is empty,
\* for every number of recent records (written without fractions: n1 and
\* n2 are the sizes of the groups, s1 and s2 their sums).
C26_TrendOverPresentRecords ==
  (pd.pc = "returned" /\ pd.matched # << >>) =>
    LET n1 == Min(3, Len(pd.recent))
        n2 == Len(pd.recent) - n1
        s1 == SumOf(SubSeq(pd.recent, 1, n1))
        s2 == SumOf(SubSeq(pd.recent, n1 + 1, Len(pd.recent)))
    IN  IF n2 = 0 THEN pd.trend3 = 0
        ELSE pd.trend3 * n1 * n2 = 3 * (s1 * n2 - s2 * n1)

\* What the steps of the update request do: for an id of no stored lot, 404
\* and nothing else; for a stored lot, 200 and one event with the value
\* written, and to the records what `recorded` says, at the last step only.
PutEndsWell(recorded) ==
  /\ put'.id \notin DOMAIN parkingLots =>
       /\ put'.pc = "done" /\ put'.status = 404
       /\ put'.emitted = << >>
       /\ parkingLots' = parkingLots /\ history' = history
  /\ put'.status = 404 => put'.id \notin DOMAIN parkingLots
  /\ put'.pc # "done" => (history' = history /\ put'.emitted = << >>)
  /\ (put'.pc = "done" /\ put'.status = 200) =>
       /\ put'.emitted = << [ lotId |-> put.id, availableSpots |-> put.sent,
                              timestamp |-> put.doc.lastUpdate ] >>
       /\ parkingLots' = parkingLots
       /\ recorded
OneRecordAdded ==
  /\ Len(history') = Len(history) + 1
  /\ SubSeq(history', 1, Len(history)) = history
  /\ history'[Len(history')].parkingLotId = put.id
  /\ history'[Len(history')].timestamp = now

\* C27: an update request for an id that is not in the store
\* answers 404 and changes no lot, creates no record and emits no event; a
\* successful one creates one HistoricalRecord and emits exactly one event,
\* carrying the value it wrote.
C27_UpdateRecordsOnce ==
  [][ put' # put => PutEndsWell(OneRecordAdded) ]_vars

\* C28: no update is lost to the background job: whenever the job stores a
\* value for a lot, that value differs by at most 3 from the value stored
\* for the lot immediately before, also when an update request was served
\* between the job's read and its write.
C28_JobWritesNearStored ==
  [][ job' # job =>
        \A id \in DOMAIN parkingLots :
          Abs(parkingLots'[id].availableSpots - parkingLots[id].availableSpots) <= 3
    ]_vars

\* C29: the area-tier step of fetchOpenStreetMapParkingById serves a lot,
\* and copies it into the entity tier with a fresh timestamp, only from an
\* area snapshot written at most AreaTTL (10 minutes) before.
C29_AreaStepWithinTTL ==
  [][ ( /\ bi'.pc = "returned" /\ bi'.source = "area-cache"
        /\ idSavedAt'[bi'.id] # idSavedAt[bi'.id] )
        => now - areaCache.ts <= AreaTTL ]_vars

\* C30: when all A attempts of callOverpass have failed and the failure is
\* thrown, exactly A-1 backoff delays have elapsed: none follows the last
\* failed attempt.
C30_NoDelayAfterLastAttempt ==
  (co.pc = "thrown" /\ co.attempts >= 1) => Len(co.delays) = co.attempts - 1

\* The caller's last request for the lotId of `call` is an unsubscribe made
\* with the socket down since the call: the call and every later subscribe
\* call for the same lotId were followed by such an unsubscribe.
LastRequestIsUnsubscribe(call) ==
  \A later \in call..Len(cl.calls) :
    cl.calls[later].lotId = cl.calls[call].lotId
      => later \in cl.unsubs.cancelled

C32_MembershipFollowsLastRequest ==
  \A ch \in Channels, lotId \in LotIds :
    lotId \in io.sockets[ch].rooms
      <=> (io.sockets[ch].connected /\ io.sockets[ch].last[lotId] = "subscribe")

\* C33: every 'parking-update' event the server emits is written to every
\* socket connected at that moment, and to no other, whether or not the
\* socket ever joined the room of the lot the event is about.
C33_EmitReachesEveryChannel ==
  [][ Len(io'.emitted) > Len(io.emitted)
        => \A ch \in Channels :
             io'.sockets[ch].received =
               IF io.sockets[ch].connected
                 THEN Append(io.sockets[ch].received,
                             io'.emitted[Len(io'.emitted)])
                 ELSE io.sockets[ch].received ]_vars

\* Two connected channels hold the same event about one lot: one of them
\* never subscribed to anything, the other subscribed to a different lot.
C33_Witness ==
  \E a, b \in Channels :
    /\ a # b
    /\ io.sockets[a].connected /\ io.sockets[b].connected
    /\ io.sockets[a].last = NoRequests
    /\ io.sockets[b].rooms = {"lotB"}
    /\ Len(io.emitted) >= 1
    /\ io.emitted[Len(io.emitted)].lotId = "lotA"
    /\ io.sockets[a].received = io.emitted
    /\ io.sockets[b].received = io.emitted

\* C34: on receipt of a 'parking-update' event the service keeps the number
\* and order of the lots it holds, changes no field other than
\* availableSpots and lastUpdate, and changes no lot whose id is not the
\* event's lotId; an event for an id it does not hold leaves the list as it
\* was.
C34_UpdateTouchesOnlyItsLot ==
  [][ Len(cl'.updates) > Len(cl.updates) =>
        LET update == cl'.updates[Len(cl'.updates)]
            before == cl.parkingLots
            after  == cl'.parkingLots
        IN  /\ Len(after) = Len(before)
            /\ \A i \in 1..Len(before) :
                 /\ [after[i] EXCEPT
                       !.availableSpots = before[i].availableSpots,
                       !.lastUpdate = before[i].lastUpdate] = before[i]
                 /\ before[i].id # update.lotId => after[i] = before[i]
            /\ (\A i \in 1..Len(before) : before[i].id # update.lotId)
                 => after = before ]_vars

\* Two lots are held; an event for the first has set its availableSpots and
\* lastUpdate, an event for a lot not held has arrived too, and the second
\* lot is as it was loaded.
C34_Witness ==
  /\ Len(cl.updates) = 2
  /\ cl.updates[1].lotId = "lotC"
  /\ cl.updates[2] = [lotId |-> "lotA", availableSpots |-> 7, timestamp |-> 30000]
  /\ cl.parkingLots =
       << [HeldLot("lotA", "North", 4) EXCEPT !.availableSpots = 7,
                                              !.lastUpdate = 30000],
          HeldLot("lotB", "South", 9) >>

=============================================================================
